---- MODULE Spec2Model ----
(***************************************************************************)
(* A symbolic model of the key hierarchy and the vault item encryption of  *)
(* the SDK.                                                                *)
(*                                                                         *)
(* Byte strings are sequences of 32-byte blocks.  A block is a sequence    *)
(* whose head is a number (the random draw it comes from) followed by the  *)
(* labels of the derivations applied to it, so two blocks are equal        *)
(* exactly when they were produced the same way.  Option<T> is a sequence  *)
(* of length 0 (None) or 1 (Some).  Result<T> is a record ok / val / err.  *)
(***************************************************************************)
EXTENDS Integers, Sequences, FiniteSets, TLC

\* ------------------------------------------------------------ bounds
NumMasterKeys == 2
NumUserKeys == 2
NumRng == 2
NumIv == 2
NumBits == 2
NumOrgs == 2
MaxGen == 2
MaxTamper == 1
NumPasswords == 2
NumEmails == 2
MaxKdfParam == 2
MaxBufs == 4
MaxSens == 1
NumTokens == 2
NumProviders == 2
MaxNumberLen == 6
NumCallers == 3
CmdSteps == 2
NumEditors == 2
NumSecrets == 2
MaxRequests == 3

\* ------------------------------------------------------------ encodings
None == <<>>
Some(x) == <<x>>
IsSome(o) == Len(o) = 1
IsNone(o) == Len(o) = 0
Unwrap(o) == o[1]

Ok(v) == [ok |-> TRUE, val |-> v, err |-> "None"]
Err(e) == [ok |-> FALSE, val |-> None, err |-> e]

RawBlock(n) == <<n>>
Derived(block, label) == Append(block, label)

\* a fresh 16-byte IV: the random draw, and the place it was drawn for
Iv(nonce, slot, i) == <<nonce, slot, i>>

\* ------------------------------------------------------------ SymmetricCryptoKey
\* key: 32 bytes, mac_key: Option of 32 bytes
SymmetricCryptoKey(key, mac_key) == [key |-> key, mac_key |-> mac_key]

\* 64 random bytes split into the encryption half and the MAC half
generate(rng) ==
    SymmetricCryptoKey(Derived(RawBlock(rng), "rnd0"), Some(Derived(RawBlock(rng), "rnd1")))

\* enc || mac (64 bytes) or enc alone (32 bytes)
to_vec(k) == <<k.key>> \o k.mac_key

\* accepts 32 or 64 bytes, fails with InvalidKeyLen otherwise
try_from(bytes) ==
    IF Len(bytes) = 2 THEN Ok(SymmetricCryptoKey(bytes[1], Some(bytes[2])))
    ELSE IF Len(bytes) = 1 THEN Ok(SymmetricCryptoKey(bytes[1], None))
    ELSE Err("InvalidKeyLen")

\* ------------------------------------------------------------ util.rs
\* HKDF-Expand of one 32-byte block out of the pseudorandom key prk;
\* from_prk rejects a prk shorter than the hash output.
hkdf_expand(prk, info) ==
    IF Len(prk) < 1 THEN Err("InvalidKeyLen")
    ELSE Ok(Derived(prk[1], info))

\* ------------------------------------------------------------ key stretching
stretch_kdf_key(k) ==
    LET key == hkdf_expand(<<k.key>>, "enc")
        mac_key == hkdf_expand(<<k.key>>, "mac")
    IN  IF ~key.ok THEN Err(key.err)
        ELSE IF ~mac_key.ok THEN Err(mac_key.err)
        ELSE Ok(SymmetricCryptoKey(key.val, Some(mac_key.val)))

\* ------------------------------------------------------------ envelope (EncString)
\* AES-256-CBC with PKCS#7 padding: the ciphertext remembers the key, the IV
\* and the plaintext it was made of; flip > 0 marks a ciphertext with bit
\* number flip inverted.
aes256_cbc_encrypt(plaintext, iv, key) ==
    [ek |-> key, iv |-> iv, pt |-> plaintext, flip |-> 0]

\* HMAC-SHA256 over IV || ciphertext
hmac_sha256(mac_key, iv, data) ==
    [mk |-> mac_key, iv |-> iv, data |-> data, flip |-> 0]

Corrupt(plaintext) == [i \in DOMAIN plaintext |-> Derived(plaintext[i], "corrupt")]

\* CBC decryption: the right key on an intact ciphertext gives the plaintext,
\* the right key on a ciphertext with a flipped bit gives corrupted blocks,
\* a wrong key fails to unpad.
aes256_cbc_decrypt(iv, data, key) ==
    IF data.ek # key THEN Err("KeyDecrypt")
    ELSE IF data.flip # 0 \/ data.iv # iv THEN Ok(Corrupt(data.pt))
    ELSE Ok(data.pt)

EncString(iv, mac, data) == [iv |-> iv, mac |-> mac, data |-> data]

encrypt_aes256_hmac(data_dec, mac_key, key, iv) ==
    LET data == aes256_cbc_encrypt(data_dec, iv, key)
    IN  Ok(EncString(iv, hmac_sha256(mac_key, iv, data), data))

\* steps lists the primitives the call ran, in order
Traced(res, steps) == [ok |-> res.ok, val |-> res.val, err |-> res.err, steps |-> steps]

decrypt_aes256_hmac(iv, mac, data, mac_key, key) ==
    IF hmac_sha256(mac_key, iv, data) # mac
    THEN Traced(Err("InvalidMac"), <<"hmac_verify">>)
    ELSE Traced(aes256_cbc_decrypt(iv, data, key), <<"hmac_verify", "aes_decrypt">>)

\* KeyDecryptable<SymmetricCryptoKey, DecryptedVec> for EncString
EncString_decrypt_with_key(enc_string, key) ==
    IF IsNone(key.mac_key) THEN Traced(Err("InvalidMac"), <<>>)
    ELSE decrypt_aes256_hmac(enc_string.iv, enc_string.mac, enc_string.data,
                             Unwrap(key.mac_key), key.key)

\* KeyEncryptable<SymmetricCryptoKey, EncString> for bytes and strings
Bytes_encrypt_with_key(bytes, key, iv) ==
    IF IsNone(key.mac_key) THEN Err("InvalidMac")
    ELSE encrypt_aes256_hmac(bytes, Unwrap(key.mac_key), key.key, iv)

\* ------------------------------------------------------------ master_key.rs
\* variant: decryption without the MAC comparison
MasterKeyDecryptNoMac(master_key, user_key) ==
    LET stretched_key == stretch_kdf_key(master_key)
    IN  IF ~stretched_key.ok THEN Traced(Err(stretched_key.err), <<>>)
        ELSE LET dec == aes256_cbc_decrypt(user_key.iv, user_key.data, stretched_key.val.key)
             IN  IF ~dec.ok THEN Traced(dec, <<"aes_decrypt">>)
                 ELSE Traced(try_from(dec.val), <<"aes_decrypt">>)

decrypt_user_key(master_key, user_key) ==
    LET stretched_key == stretch_kdf_key(master_key)
    IN  IF ~stretched_key.ok THEN Traced(Err(stretched_key.err), <<>>)
        ELSE LET dec == EncString_decrypt_with_key(user_key, stretched_key.val)
             IN  IF ~dec.ok THEN dec
                 ELSE Traced(try_from(dec.val), dec.steps)

\* variant: the master key is used as it is, a missing MAC half as an empty key
EncryptUserKeyUnchecked(master_key, user_key, iv) ==
    encrypt_aes256_hmac(to_vec(user_key),
                        IF IsSome(master_key.mac_key) THEN Unwrap(master_key.mac_key) ELSE <<>>,
                        master_key.key, iv)

\* variant: only the encryption half of the user key is wrapped
EncryptUserKeyEncHalfOnly(master_key, user_key, iv) ==
    LET stretched_key == stretch_kdf_key(master_key)
    IN  IF ~stretched_key.ok THEN Err(stretched_key.err)
        ELSE IF IsNone(stretched_key.val.mac_key) THEN Err("InvalidMac")
        ELSE encrypt_aes256_hmac(<<user_key.key>>, Unwrap(stretched_key.val.mac_key),
                                 stretched_key.val.key, iv)

encrypt_user_key(master_key, user_key, iv) ==
    LET stretched_key == stretch_kdf_key(master_key)
    IN  IF ~stretched_key.ok THEN Err(stretched_key.err)
        ELSE IF IsNone(stretched_key.val.mac_key) THEN Err("InvalidMac")
        ELSE encrypt_aes256_hmac(to_vec(user_key), Unwrap(stretched_key.val.mac_key),
                                 stretched_key.val.key, iv)

\* variant: the key wrapped is a second draw, not the key returned
MakeUserKeyWrapsOther(rng, iv, master_key) ==
    LET user_key == generate(rng)
        protected == encrypt_user_key(master_key, generate(rng + 1), iv)
    IN  IF ~protected.ok THEN Err(protected.err)
        ELSE Ok([user_key |-> user_key, protected |-> protected.val])

make_user_key(rng, iv, master_key) ==
    LET user_key == generate(rng)
        protected == encrypt_user_key(master_key, user_key, iv)
    IN  IF ~protected.ok THEN Err(protected.err)
        ELSE Ok([user_key |-> user_key, protected |-> protected.val])

\* ------------------------------------------------------------ vault item: field types
\* A string is a sequence of one-character strings; its bytes are itself.
EmptyString == <<>>

String_encrypt_with_key(str, key, iv) == Bytes_encrypt_with_key(str, key, iv)

String_decrypt_with_key(enc_string, key) ==
    LET d == EncString_decrypt_with_key(enc_string, key)
    IN  IF d.ok THEN Ok(d.val) ELSE Err(d.err)

\* Option<T>: None encrypts and decrypts to None
OptString_encrypt_with_key(opt, key, iv) ==
    IF IsNone(opt) THEN Ok(None)
    ELSE LET r == String_encrypt_with_key(Unwrap(opt), key, iv)
         IN  IF r.ok THEN Ok(Some(r.val)) ELSE r

OptString_decrypt_with_key(opt, key) ==
    IF IsNone(opt) THEN Ok(None)
    ELSE LET r == String_decrypt_with_key(Unwrap(opt), key)
         IN  IF r.ok THEN Ok(Some(r.val)) ELSE r

\* the first error of a sequence of results, as the ? operator returns it
RECURSIVE FirstErr(_)
FirstErr(rs) ==
    IF rs = <<>> THEN "None"
    ELSE IF ~Head(rs).ok THEN Head(rs).err
    ELSE FirstErr(Tail(rs))

AllOk(rs) == \A i \in DOMAIN rs : rs[i].ok

\* Vec<T> of encrypted strings (attachments, fields, password history)
Vec_encrypt_with_key(vec, key, nonce, slot) ==
    LET rs == [i \in DOMAIN vec |-> String_encrypt_with_key(vec[i], key, Iv(nonce, slot, i))]
    IN  IF AllOk(rs) THEN Ok([i \in DOMAIN vec |-> rs[i].val]) ELSE Err(FirstErr(rs))

Vec_decrypt_with_key(vec, key) ==
    LET rs == [i \in DOMAIN vec |-> String_decrypt_with_key(vec[i], key)]
    IN  IF AllOk(rs) THEN Ok([i \in DOMAIN vec |-> rs[i].val]) ELSE Err(FirstErr(rs))

OptVec_encrypt_with_key(opt, key, nonce, slot) ==
    IF IsNone(opt) THEN Ok(None)
    ELSE LET r == Vec_encrypt_with_key(Unwrap(opt), key, nonce, slot)
         IN  IF r.ok THEN Ok(Some(r.val)) ELSE r

OptVec_decrypt_with_key(opt, key) ==
    IF IsNone(opt) THEN Ok(None)
    ELSE LET r == Vec_decrypt_with_key(Unwrap(opt), key)
         IN  IF r.ok THEN Ok(Some(r.val)) ELSE r

\* SHA-256 of a URI, as text
Sha256(str) == <<"sha256">> \o str

\* LoginUriView
generate_checksum(u) ==
    IF IsSome(u.uri) THEN [u EXCEPT !.uri_checksum = Some(Sha256(Unwrap(u.uri)))] ELSE u

is_checksum_valid(u) ==
    /\ IsSome(u.uri)
    /\ IsSome(u.uri_checksum)
    /\ Unwrap(u.uri_checksum) = Sha256(Unwrap(u.uri))

LoginUri_encrypt_with_key(u, key, nonce, i) ==
    LET uri == OptString_encrypt_with_key(u.uri, key, Iv(nonce, "uri", i))
        cs == OptString_encrypt_with_key(u.uri_checksum, key, Iv(nonce, "uri_checksum", i))
    IN  IF AllOk(<<uri, cs>>) THEN Ok([uri |-> uri.val, uri_checksum |-> cs.val])
        ELSE Err(FirstErr(<<uri, cs>>))

LoginUri_decrypt_with_key(u, key) ==
    LET uri == OptString_decrypt_with_key(u.uri, key)
        cs == OptString_decrypt_with_key(u.uri_checksum, key)
    IN  IF AllOk(<<uri, cs>>) THEN Ok([uri |-> uri.val, uri_checksum |-> cs.val])
        ELSE Err(FirstErr(<<uri, cs>>))

\* LoginView / Login: username and the list of URIs
Login_encrypt_with_key(opt, key, nonce) ==
    IF IsNone(opt) THEN Ok(None)
    ELSE LET l == Unwrap(opt)
             username == OptString_encrypt_with_key(l.username, key, Iv(nonce, "username", 0))
             us == IF IsNone(l.uris) THEN <<>> ELSE Unwrap(l.uris)
             uris == [i \in DOMAIN us |-> LoginUri_encrypt_with_key(us[i], key, nonce, i)]
             rs == <<username>> \o uris
         IN  IF AllOk(rs)
             THEN Ok(Some([username |-> username.val,
                           uris |-> IF IsNone(l.uris) THEN None
                                    ELSE Some([i \in DOMAIN us |-> uris[i].val])]))
             ELSE Err(FirstErr(rs))

Login_decrypt_with_key(opt, key) ==
    IF IsNone(opt) THEN Ok(None)
    ELSE LET l == Unwrap(opt)
             username == OptString_decrypt_with_key(l.username, key)
             us == IF IsNone(l.uris) THEN <<>> ELSE Unwrap(l.uris)
             uris == [i \in DOMAIN us |-> LoginUri_decrypt_with_key(us[i], key)]
             rs == <<username>> \o uris
         IN  IF AllOk(rs)
             THEN Ok(Some([username |-> username.val,
                           uris |-> IF IsNone(l.uris) THEN None
                                    ELSE Some([i \in DOMAIN us |-> uris[i].val])]))
             ELSE Err(FirstErr(rs))

\* a record of two optional strings (CardView: brand, number; IdentityView:
\* first_name, last_name)
Pair_encrypt_with_key(opt, key, nonce, slot, f1, f2) ==
    IF IsNone(opt) THEN Ok(None)
    ELSE LET a == OptString_encrypt_with_key(Unwrap(opt)[f1], key, Iv(nonce, slot, 1))
             b == OptString_encrypt_with_key(Unwrap(opt)[f2], key, Iv(nonce, slot, 2))
         IN  IF AllOk(<<a, b>>) THEN Ok(Some((f1 :> a.val) @@ (f2 :> b.val)))
             ELSE Err(FirstErr(<<a, b>>))

Pair_decrypt_with_key(opt, key, f1, f2) ==
    IF IsNone(opt) THEN Ok(None)
    ELSE LET a == OptString_decrypt_with_key(Unwrap(opt)[f1], key)
             b == OptString_decrypt_with_key(Unwrap(opt)[f2], key)
         IN  IF AllOk(<<a, b>>) THEN Ok(Some((f1 :> a.val) @@ (f2 :> b.val)))
             ELSE Err(FirstErr(<<a, b>>))

Card_encrypt_with_key(opt, key, nonce) == Pair_encrypt_with_key(opt, key, nonce, "card", "brand", "number")
Card_decrypt_with_key(opt, key) == Pair_decrypt_with_key(opt, key, "brand", "number")
Identity_encrypt_with_key(opt, key, nonce) ==
    Pair_encrypt_with_key(opt, key, nonce, "identity", "first_name", "last_name")
Identity_decrypt_with_key(opt, key) == Pair_decrypt_with_key(opt, key, "first_name", "last_name")

\* SecureNote and LocalData hold no encrypted member
Plain_encrypt_with_key(opt, key) == Ok(opt)
Plain_decrypt_with_key(opt, key) == Ok(opt)

\* .ok().flatten() and .ok().unwrap_or_default()
OkFlatten(r) == IF r.ok THEN r.val ELSE None
OkOrDefault(r) == IF r.ok THEN r.val ELSE EmptyString

\* ------------------------------------------------------------ cipher.rs
\* Cipher and CipherView are records organization_id, key, name, notes, type,
\* login, identity, card, secure_note, local_data, attachments, fields,
\* password_history; the members copied verbatim in both directions (ids,
\* flags, dates) are left out.

\* Cipher::get_cipher_key
Cipher_get_cipher_key(key, ciphers_key) ==
    IF IsNone(ciphers_key) THEN Ok(None)
    ELSE LET dec == EncString_decrypt_with_key(Unwrap(ciphers_key), key)
         IN  IF ~dec.ok THEN Err(dec.err)
             ELSE LET k == try_from(dec.val)
                  IN  IF k.ok THEN Ok(Some(k.val)) ELSE k

\* CipherView::generate_checksums
generate_checksums(view) ==
    IF IsSome(view.login) /\ IsSome(Unwrap(view.login).uris)
    THEN LET uris == Unwrap(Unwrap(view.login).uris)
         IN  [view EXCEPT !.login =
                Some([Unwrap(view.login) EXCEPT !.uris =
                        Some([i \in DOMAIN uris |-> generate_checksum(uris[i])])])]
    ELSE view

\* CipherView::remove_invalid_checksums
remove_invalid_checksums(view) ==
    IF IsSome(view.login) /\ IsSome(Unwrap(view.login).uris)
    THEN LET uris == Unwrap(Unwrap(view.login).uris)
         IN  [view EXCEPT !.login =
                Some([Unwrap(view.login) EXCEPT !.uris = Some(SelectSeq(uris, is_checksum_valid))])]
    ELSE view

\* the members of a view encrypted under key
EncryptFields(view, key, nonce) ==
    LET name == String_encrypt_with_key(view.name, key, Iv(nonce, "name", 0))
        notes == OptString_encrypt_with_key(view.notes, key, Iv(nonce, "notes", 0))
        login == Login_encrypt_with_key(view.login, key, nonce)
        identity == Identity_encrypt_with_key(view.identity, key, nonce)
        card == Card_encrypt_with_key(view.card, key, nonce)
        secure_note == Plain_encrypt_with_key(view.secure_note, key)
        local_data == Plain_encrypt_with_key(view.local_data, key)
        attachments == OptVec_encrypt_with_key(view.attachments, key, nonce, "attachments")
        fields == OptVec_encrypt_with_key(view.fields, key, nonce, "fields")
        password_history ==
            OptVec_encrypt_with_key(view.password_history, key, nonce, "password_history")
        rs == <<name, notes, login, identity, card, secure_note, local_data, attachments,
                fields, password_history>>
    IN  IF ~AllOk(rs) THEN Err(FirstErr(rs))
        ELSE Ok([organization_id |-> view.organization_id,
                 key |-> view.key,
                 name |-> name.val,
                 notes |-> notes.val,
                 type |-> view.type,
                 login |-> login.val,
                 identity |-> identity.val,
                 card |-> card.val,
                 secure_note |-> secure_note.val,
                 local_data |-> local_data.val,
                 attachments |-> attachments.val,
                 fields |-> fields.val,
                 password_history |-> password_history.val])

\* variant: the members are encrypted with the key passed in (no shadowing)
EncryptUnderPrincipalKey(view, key, nonce) ==
    LET ciphers_key == Cipher_get_cipher_key(key, view.key)
    IN  IF ~ciphers_key.ok THEN Err(ciphers_key.err)
        ELSE IF IsSome(ciphers_key.val)
             THEN EncryptFields(generate_checksums(view), key, nonce)
             ELSE EncryptFields(view, key, nonce)

\* variant: an item key that does not unwrap is treated as absent
EncryptFallsBackToPrincipalKey(view, key, nonce) ==
    LET ciphers_key == Cipher_get_cipher_key(key, view.key)
    IN  IF ciphers_key.ok /\ IsSome(ciphers_key.val)
        THEN EncryptFields(generate_checksums(view), Unwrap(ciphers_key.val), nonce)
        ELSE EncryptFields(view, key, nonce)

\* KeyEncryptable<SymmetricCryptoKey, Cipher> for CipherView
CipherView_encrypt_with_key(view, key, nonce) ==
    LET ciphers_key == Cipher_get_cipher_key(key, view.key)
    IN  IF ~ciphers_key.ok THEN Err(ciphers_key.err)
        ELSE IF IsSome(ciphers_key.val)
             THEN EncryptFields(generate_checksums(view), Unwrap(ciphers_key.val), nonce)
             ELSE EncryptFields(view, key, nonce)

\* the members of a cipher decrypted under key, each on its own
DecryptFields(cipher, key) ==
    [organization_id |-> cipher.organization_id,
     key |-> cipher.key,
     name |-> OkOrDefault(String_decrypt_with_key(cipher.name, key)),
     notes |-> OkFlatten(OptString_decrypt_with_key(cipher.notes, key)),
     type |-> cipher.type,
     login |-> OkFlatten(Login_decrypt_with_key(cipher.login, key)),
     identity |-> OkFlatten(Identity_decrypt_with_key(cipher.identity, key)),
     card |-> OkFlatten(Card_decrypt_with_key(cipher.card, key)),
     secure_note |-> OkFlatten(Plain_decrypt_with_key(cipher.secure_note, key)),
     local_data |-> OkFlatten(Plain_decrypt_with_key(cipher.local_data, key)),
     attachments |-> OkFlatten(OptVec_decrypt_with_key(cipher.attachments, key)),
     fields |-> OkFlatten(OptVec_decrypt_with_key(cipher.fields, key)),
     password_history |-> OkFlatten(OptVec_decrypt_with_key(cipher.password_history, key))]

\* the results of decrypting each member of a cipher
FieldResults(cipher, key) ==
    <<String_decrypt_with_key(cipher.name, key),
      OptString_decrypt_with_key(cipher.notes, key),
      Login_decrypt_with_key(cipher.login, key),
      Identity_decrypt_with_key(cipher.identity, key),
      Card_decrypt_with_key(cipher.card, key),
      OptVec_decrypt_with_key(cipher.attachments, key),
      OptVec_decrypt_with_key(cipher.fields, key),
      OptVec_decrypt_with_key(cipher.password_history, key)>>

\* variant: the error of a member is propagated with ?
DecryptAbortsOnFieldError(cipher, key) ==
    LET ciphers_key == Cipher_get_cipher_key(key, cipher.key)
        k == IF ciphers_key.ok /\ IsSome(ciphers_key.val) THEN Unwrap(ciphers_key.val) ELSE key
    IN  IF ~ciphers_key.ok THEN Err(ciphers_key.err)
        ELSE IF ~AllOk(FieldResults(cipher, k)) THEN Err(FirstErr(FieldResults(cipher, k)))
        ELSE IF IsSome(ciphers_key.val)
             THEN Ok(remove_invalid_checksums(DecryptFields(cipher, k)))
             ELSE Ok(DecryptFields(cipher, k))

\* variant: invalid checksums are removed whether or not there is an item key
DecryptRemovesAlways(cipher, key) ==
    LET ciphers_key == Cipher_get_cipher_key(key, cipher.key)
    IN  IF ~ciphers_key.ok THEN Err(ciphers_key.err)
        ELSE IF IsSome(ciphers_key.val)
             THEN Ok(remove_invalid_checksums(DecryptFields(cipher, Unwrap(ciphers_key.val))))
             ELSE Ok(remove_invalid_checksums(DecryptFields(cipher, key)))

\* KeyDecryptable<SymmetricCryptoKey, CipherView> for Cipher
Cipher_decrypt_with_key(cipher, key) ==
    LET ciphers_key == Cipher_get_cipher_key(key, cipher.key)
    IN  IF ~ciphers_key.ok THEN Err(ciphers_key.err)
        ELSE IF IsSome(ciphers_key.val)
             THEN Ok(remove_invalid_checksums(DecryptFields(cipher, Unwrap(ciphers_key.val))))
             ELSE Ok(DecryptFields(cipher, key))

\* a str is a sequence of characters; a character outside ASCII is named by
\* its code point and takes more than one byte in UTF-8
utf8_width(c) == IF c = "U+00E9" THEN 2 ELSE IF c = "U+20AC" THEN 3 ELSE 1

\* str::len: the length in bytes
RECURSIVE str_len(_)
str_len(s) == IF s = <<>> THEN 0 ELSE utf8_width(Head(s)) + str_len(Tail(s))

\* str::is_char_boundary
is_char_boundary(s, index) == \E k \in 0..Len(s) : str_len(SubSeq(s, 1, k)) = index

\* the number of characters that end at or before a byte index
chars_before(s, index) == CHOOSE k \in 0..Len(s) : str_len(SubSeq(s, 1, k)) = index

PanicCharBoundary == "panic: byte index is not a char boundary"
PanicSubtract == "panic: attempt to subtract with overflow"
Panicked(r) == ~r.ok /\ r.err \in {PanicCharBoundary, PanicSubtract}

\* &s[begin..end] on a str: byte indices, a panic off a char boundary
str_index(s, begin, end) ==
    IF begin > end \/ end > str_len(s) \/ ~is_char_boundary(s, begin) \/ ~is_char_boundary(s, end)
    THEN Err(PanicCharBoundary)
    ELSE Ok(SubSeq(s, chars_before(s, begin) + 1, chars_before(s, end)))

\* build_subtitle_card: Ok of the subtitle, or the panic of a str index
build_subtitle_card(brand_in, number_in) ==
    LET brand == IF IsSome(brand_in) /\ Unwrap(brand_in) # EmptyString THEN brand_in ELSE None
        n == IF IsSome(number_in) THEN Unwrap(number_in) ELSE EmptyString
        kept == IsSome(number_in) /\ str_len(n) > 4
        prefix == str_index(n, 0, 2)
        desired_len == IF prefix.val \in {<<"3", "4">>, <<"3", "7">>} THEN 5 ELSE 4
        start == str_len(n) - desired_len
        tail == str_index(n, start, str_len(n))
        number == IF kept THEN Some(<<"*">> \o tail.val) ELSE None
    IN  IF kept /\ ~prefix.ok THEN prefix
        ELSE IF kept /\ start < 0 THEN Err(PanicSubtract)
        ELSE IF kept /\ ~tail.ok THEN tail
        ELSE IF IsSome(brand) /\ IsSome(number)
        THEN Ok(Unwrap(brand) \o <<",", " ">> \o Unwrap(number))
        ELSE IF IsSome(brand) THEN Ok(Unwrap(brand))
        ELSE IF IsSome(number) THEN Ok(Unwrap(number))
        ELSE Ok(EmptyString)

\* build_subtitle_identity
build_subtitle_identity(first_in, last_in) ==
    LET first_name == IF IsSome(first_in) /\ Unwrap(first_in) # EmptyString THEN first_in ELSE None
        last_name == IF IsSome(last_in) /\ Unwrap(last_in) # EmptyString THEN last_in ELSE None
    IN  IF IsSome(first_name) /\ IsSome(last_name)
        THEN Unwrap(first_name) \o <<" ">> \o Unwrap(last_name)
        ELSE IF IsSome(first_name) THEN Unwrap(first_name)
        ELSE IF IsSome(last_name) THEN Unwrap(last_name)
        ELSE EmptyString

\* Cipher::get_decrypted_subtitle
get_decrypted_subtitle(cipher, key) ==
    CASE cipher.type = "Login" ->
            IF IsNone(cipher.login) THEN Ok(EmptyString)
            ELSE LET u == OptString_decrypt_with_key(Unwrap(cipher.login).username, key)
                 IN  IF ~u.ok THEN u
                     ELSE Ok(IF IsSome(u.val) THEN Unwrap(u.val) ELSE EmptyString)
      [] cipher.type = "SecureNote" -> Ok(EmptyString)
      [] cipher.type = "Card" ->
            IF IsNone(cipher.card) THEN Ok(EmptyString)
            ELSE LET brand == OptString_decrypt_with_key(Unwrap(cipher.card).brand, key)
                     number == OptString_decrypt_with_key(Unwrap(cipher.card).number, key)
                 IN  IF ~brand.ok THEN brand
                     ELSE IF ~number.ok THEN number
                     ELSE build_subtitle_card(brand.val, number.val)
      [] cipher.type = "Identity" ->
            IF IsNone(cipher.identity) THEN Ok(EmptyString)
            ELSE LET first == OptString_decrypt_with_key(Unwrap(cipher.identity).first_name, key)
                     last == OptString_decrypt_with_key(Unwrap(cipher.identity).last_name, key)
                 IN  IF ~first.ok THEN first
                     ELSE IF ~last.ok THEN last
                     ELSE Ok(build_subtitle_identity(first.val, last.val))

ListFields(cipher, key) ==
    [organization_id |-> cipher.organization_id,
     name |-> OkOrDefault(String_decrypt_with_key(cipher.name, key)),
     sub_title |-> OkOrDefault(get_decrypted_subtitle(cipher, key)),
     type |-> cipher.type,
     attachments |-> IF IsSome(cipher.attachments) THEN Len(Unwrap(cipher.attachments)) ELSE 0]

\* variant: an item key that cannot be unwrapped is replaced by the key passed
DecryptListFallsBackToPrincipalKey(cipher, key) ==
    LET ciphers_key == Cipher_get_cipher_key(key, cipher.key)
    IN  Ok(ListFields(cipher, IF ciphers_key.ok /\ IsSome(ciphers_key.val)
                              THEN Unwrap(ciphers_key.val) ELSE key))

\* KeyDecryptable<SymmetricCryptoKey, CipherListView> for Cipher
Cipher_decrypt_list_with_key(cipher, key) ==
    LET ciphers_key == Cipher_get_cipher_key(key, cipher.key)
        k == IF IsSome(ciphers_key.val) THEN Unwrap(ciphers_key.val) ELSE key
    IN  IF ~ciphers_key.ok THEN Err(ciphers_key.err)
        ELSE IF Panicked(get_decrypted_subtitle(cipher, k))
        THEN Err(get_decrypted_subtitle(cipher, k).err)
        ELSE Ok(ListFields(cipher, k))

\* an operation on &mut self returns its result and the view it leaves
Ret(res, view) == [res |-> res, view |-> view]

\* variant: the new key is wrapped under itself
GenerateWrapsUnderNewKey(view, key, rng, nonce) ==
    LET ciphers_key == Cipher_get_cipher_key(key, view.key)
    IN  IF ~ciphers_key.ok THEN Ret(Err(ciphers_key.err), view)
        ELSE LET new_key == generate(rng)
                 enc == Bytes_encrypt_with_key(to_vec(new_key), new_key, Iv(nonce, "key", 0))
             IN  IF ~enc.ok THEN Ret(Err(enc.err), view)
                 ELSE Ret(Ok(None), [view EXCEPT !.key = Some(enc.val)])

\* CipherView::generate_cipher_key
generate_cipher_key(view, key, rng, nonce) ==
    LET ciphers_key == Cipher_get_cipher_key(key, view.key)
    IN  IF ~ciphers_key.ok THEN Ret(Err(ciphers_key.err), view)
        ELSE LET k == IF IsSome(ciphers_key.val) THEN Unwrap(ciphers_key.val) ELSE key
                 new_key == generate(rng)
                 enc == Bytes_encrypt_with_key(to_vec(new_key), k, Iv(nonce, "key", 0))
             IN  IF ~enc.ok THEN Ret(Err(enc.err), view)
                 ELSE Ret(Ok(None), [view EXCEPT !.key = Some(enc.val)])

\* KeyContainer::get_key: enc maps an Option<organization id> to an Option<key>
get_key(enc, org_id) == enc[org_id]

\* variant: organization_id is set without re-wrapping the item key
MoveKeepsWrapping(view, enc, organization_id, nonce) ==
    IF IsSome(view.key)
    THEN LET old_key == get_key(enc, view.organization_id)
             new_key == get_key(enc, Some(organization_id))
         IN  IF IsNone(old_key) THEN Ret(Err("VaultLocked"), view)
             ELSE IF IsNone(new_key) THEN Ret(Err("VaultLocked"), view)
             ELSE LET dec_cipher_key == EncString_decrypt_with_key(Unwrap(view.key), Unwrap(old_key))
                  IN  IF ~dec_cipher_key.ok THEN Ret(Err(dec_cipher_key.err), view)
                      ELSE Ret(Ok(None), [view EXCEPT !.organization_id = Some(organization_id)])
    ELSE Ret(Ok(None), [view EXCEPT !.organization_id = Some(organization_id)])

\* variant: a missing organization key is not an error
MoveSkipsMissingNewKey(view, enc, organization_id, nonce) ==
    IF IsSome(view.key)
    THEN LET old_key == get_key(enc, view.organization_id)
             new_key == get_key(enc, Some(organization_id))
         IN  IF IsNone(old_key) THEN Ret(Err("VaultLocked"), view)
             ELSE IF IsNone(new_key)
                  THEN Ret(Ok(None), [view EXCEPT !.organization_id = Some(organization_id)])
             ELSE LET dec_cipher_key == EncString_decrypt_with_key(Unwrap(view.key), Unwrap(old_key))
                  IN  IF ~dec_cipher_key.ok THEN Ret(Err(dec_cipher_key.err), view)
                      ELSE LET enc_key == Bytes_encrypt_with_key(dec_cipher_key.val,
                                                Unwrap(new_key), Iv(nonce, "key", 0))
                           IN  IF ~enc_key.ok THEN Ret(Err(enc_key.err), view)
                               ELSE Ret(Ok(None),
                                        [view EXCEPT !.key = Some(enc_key.val),
                                                     !.organization_id = Some(organization_id)])
    ELSE Ret(Ok(None), [view EXCEPT !.organization_id = Some(organization_id)])

\* variant: organization_id is written before the item key is unwrapped
MoveSetsOwnerFirst(view, enc, organization_id, nonce) ==
    LET moved == [view EXCEPT !.organization_id = Some(organization_id)]
    IN  IF IsSome(view.key)
        THEN LET old_key == get_key(enc, view.organization_id)
                 new_key == get_key(enc, Some(organization_id))
             IN  IF IsNone(old_key) THEN Ret(Err("VaultLocked"), view)
                 ELSE IF IsNone(new_key) THEN Ret(Err("VaultLocked"), view)
                 ELSE LET dec_cipher_key == EncString_decrypt_with_key(Unwrap(view.key), Unwrap(old_key))
                      IN  IF ~dec_cipher_key.ok THEN Ret(Err(dec_cipher_key.err), moved)
                          ELSE LET enc_key == Bytes_encrypt_with_key(dec_cipher_key.val,
                                                    Unwrap(new_key), Iv(nonce, "key", 0))
                               IN  IF ~enc_key.ok THEN Ret(Err(enc_key.err), moved)
                                   ELSE Ret(Ok(None), [moved EXCEPT !.key = Some(enc_key.val)])
        ELSE Ret(Ok(None), moved)

\* CipherView::move_to_organization
move_to_organization(view, enc, organization_id, nonce) ==
    IF IsSome(view.key)
    THEN LET old_key == get_key(enc, view.organization_id)
             new_key == get_key(enc, Some(organization_id))
         IN  IF IsNone(old_key) THEN Ret(Err("VaultLocked"), view)
             ELSE IF IsNone(new_key) THEN Ret(Err("VaultLocked"), view)
             ELSE LET dec_cipher_key == EncString_decrypt_with_key(Unwrap(view.key), Unwrap(old_key))
                  IN  IF ~dec_cipher_key.ok THEN Ret(Err(dec_cipher_key.err), view)
                      ELSE LET enc_key == Bytes_encrypt_with_key(dec_cipher_key.val,
                                                Unwrap(new_key), Iv(nonce, "key", 0))
                           IN  IF ~enc_key.ok THEN Ret(Err(enc_key.err), view)
                               ELSE Ret(Ok(None),
                                        [view EXCEPT !.key = Some(enc_key.val),
                                                     !.organization_id = Some(organization_id)])
    ELSE Ret(Ok(None), [view EXCEPT !.organization_id = Some(organization_id)])

\* ------------------------------------------------------------ master_key.rs: Kdf
\* NonZeroU32::new
NonZeroU32_new(n) == IF n = 0 THEN None ELSE Some(n)

default_pbkdf2_iterations == Unwrap(NonZeroU32_new(600000))
default_argon2_iterations == Unwrap(NonZeroU32_new(3))
default_argon2_memory == Unwrap(NonZeroU32_new(64))
default_argon2_parallelism == Unwrap(NonZeroU32_new(4))

\* enum Kdf: the variant and its parameters in the order of declaration
Kdf_PBKDF2(iterations) == [tag |-> "PBKDF2", params |-> <<iterations>>]
Kdf_Argon2id(iterations, memory, parallelism) ==
    [tag |-> "Argon2id", params |-> <<iterations, memory, parallelism>>]

\* variant: the default of before the iterations were raised
KdfDefaultOld == Kdf_PBKDF2(Unwrap(NonZeroU32_new(100000)))

\* impl Default for Kdf
Kdf_default == Kdf_PBKDF2(default_pbkdf2_iterations)

\* enum HashPurpose and `purpose as u32`
ServerAuthorization == 1
LocalAuthorization == 2
HashPurpose == {ServerAuthorization, LocalAuthorization}

\* the key of a password, a salt and a Kdf: one block, no MAC half
derive_kdf_key(password, salt, k) ==
    Ok(SymmetricCryptoKey(password \o <<k.tag, salt>> \o k.params, None))

\* variant: the derived key is stretched before it is returned
DeriveStretched(password, email, k) ==
    stretch_kdf_key(derive_kdf_key(password, email, k).val)

\* MasterKey::derive
derive(password, email, k) == derive_kdf_key(password, email, k)

\* ------------------------------------------------------------ util.rs: pbkdf2
PBKDF_SHA256_HMAC_OUT_SIZE == 32

\* HMAC-SHA256 keyed with key over message
Hmac(key, message) == [k |-> key, m |-> message]

\* block U_i of PBKDF2 (RFC 8018): U_1 = PRF(P, S || INT(1)), U_i = PRF(P, U_{i-1})
RECURSIVE pbkdf2_U(_, _, _)
pbkdf2_U(password, salt, i) ==
    IF i = 1 THEN Hmac(password, <<"salt", salt, 1>>)
    ELSE Hmac(password, <<"prev", pbkdf2_U(password, salt, i - 1)>>)

\* the key everybody knows
PublicKey == <<>>

RECURSIVE UnkeyedU(_, _, _)
UnkeyedU(password, salt, i) ==
    IF i = 1 THEN Hmac(password, <<"salt", salt, 1>>)
    ELSE Hmac(PublicKey, <<"prev", UnkeyedU(password, salt, i - 1)>>)

\* variant: only the first round is keyed with the password
Pbkdf2LaterRoundsUnkeyed(password, salt, rounds) ==
    [len |-> PBKDF_SHA256_HMAC_OUT_SIZE,
     xor |-> {UnkeyedU(password, salt, i) : i \in 1..rounds}]

\* the digest: the exclusive or of U_1 .. U_rounds
pbkdf2(password, salt, rounds) ==
    [len |-> PBKDF_SHA256_HMAC_OUT_SIZE,
     xor |-> {pbkdf2_U(password, salt, i) : i \in 1..rounds}]

\* ------------------------------------------------------------ sensitive.rs: base64
\* base64::encoded_len
encoded_len(bytes_len, padding) ==
    IF padding THEN 4 * ((bytes_len + 2) \div 3) ELSE (4 * bytes_len + 2) \div 3

\* the STANDARD engine pads
STANDARD == [padding |-> TRUE]

\* Sensitive::encode_base64: the text of value in the alphabet of engine
encode_base64(value, engine) ==
    [b64 |-> value,
     len |-> encoded_len(value.len, engine.padding),
     pad |-> encoded_len(value.len, TRUE) - encoded_len(value.len, FALSE),
     padded |-> engine.padding]

\* variant: both purposes are hashed with one round
HashAlwaysOneRound(master_key, password, purpose) ==
    Ok(encode_base64(pbkdf2(master_key.key, password, 1), STANDARD))

\* variant: the password is the PBKDF2 password and the key the salt
HashSwapsKeyAndPassword(master_key, password, purpose) ==
    Ok(encode_base64(pbkdf2(password, master_key.key, purpose), STANDARD))

\* MasterKey::derive_master_key_hash
derive_master_key_hash(master_key, password, purpose) ==
    LET hash == pbkdf2(master_key.key, password, purpose)
    IN  Ok(encode_base64(hash, STANDARD))

\* ------------------------------------------------------------ sensitive.rs
\* Bytes are one-character strings; "xFF" is the byte 0xFF, which no UTF-8
\* text contains.  The data of a buffer: its bytes as first written, and the
\* lengths it had under each base64 encoding applied since (the last is its
\* length now) with the padding of each.
Data(bytes) == [bytes |-> bytes, lens |-> <<Len(bytes)>>, pads |-> <<FALSE>>]
NoData == Data(<<>>)
DataLen(d) == d.lens[Len(d.lens)]

\* String::from_utf8 accepts the bytes
is_utf8(d) == Len(d.lens) > 1 \/ \A i \in DOMAIN d.bytes : d.bytes[i] # "xFF"

Base64Alphabet == {"t", "e", "s", "a", "b", "V", "J", "D"}
\* the text decodes with an engine of this padding
is_base64(d, padding) ==
    IF Len(d.lens) > 1 THEN d.pads[Len(d.pads)] = padding \/ DataLen(d) % 4 = 0
    ELSE /\ \A i \in DOMAIN d.bytes : d.bytes[i] \in Base64Alphabet
         /\ IF padding THEN DataLen(d) % 4 = 0 ELSE DataLen(d) % 4 # 1

Encoded(d, padding) ==
    [d EXCEPT !.lens = Append(@, encoded_len(DataLen(d), padding)), !.pads = Append(@, padding)]

Decoded(d) ==
    IF Len(d.lens) > 1
    THEN [d EXCEPT !.lens = SubSeq(@, 1, Len(@) - 1), !.pads = SubSeq(@, 1, Len(@) - 1)]
    ELSE [bytes |-> <<"dec">> \o d.bytes, lens |-> <<(DataLen(d) * 3) \div 4>>, pads |-> <<FALSE>>]

\* base64::decoded_len_estimate
decoded_len_estimate(encoded_len_) == ((encoded_len_ + 3) \div 4) * 3

\* a buffer of the allocator
Buffer(cap, len, data) ==
    [live |-> TRUE, cap |-> cap, len |-> len, data |-> data, wiped |-> FALSE,
     grown |-> 0, stale |-> FALSE]

\* Vec::with_capacity / String::with_capacity / vec![0u8; len]
Alloc(h, cap, len) == Append(h, Buffer(cap, len, NoData))

\* appending n bytes to buffer b, which then holds data: beyond the capacity
\* the buffer is reallocated and the old allocation, with what it held, is
\* released as it is
Write(h, b, n, data) ==
    [h EXCEPT ![b].len = @ + n,
              ![b].data = data,
              ![b].grown = IF h[b].len + n > h[b].cap THEN @ + 1 ELSE @,
              ![b].stale = @ \/ (h[b].len + n > h[b].cap /\ h[b].len > 0),
              ![b].cap = IF h[b].len + n > @ THEN h[b].len + n ELSE @]

\* overwriting the bytes of buffer b in place
Fill(h, b, data) == [h EXCEPT ![b].data = data]

\* Vec::truncate
Truncate(h, b, n) == [h EXCEPT ![b].len = n]

\* zeroize (which wipes the bytes and the spare capacity and empties the
\* buffer), then release
ZeroizeAndFree(h, b) ==
    [h EXCEPT ![b].live = FALSE, ![b].wiped = TRUE, ![b].data = NoData,
              ![b].len = 0, ![b].cap = 0]

\* release as it is: the bytes stay where they were
Free(h, b) == [h EXCEPT ![b].live = FALSE, ![b].cap = 0]

\* what an operation on containers returns: the heap, the container made (an
\* Option) and the Result
Done(h, made, res) == [heap |-> h, made |-> made, res |-> res]

Sensitive(type, buf) == [type |-> type, buf |-> buf]

\* Sensitive::new(Box::new(value))
Sensitive_new(h, type, data) ==
    Done(Write(Alloc(h, DataLen(data), 0), Len(h) + 1, DataLen(data), data),
         Some(Sensitive(type, Len(h) + 1)), Ok(None))

\* #[derive(ZeroizeOnDrop)]
Sensitive_drop(h, c) == ZeroizeAndFree(h, c.buf)

\* TryFrom<SensitiveVec> for SensitiveString: the Vec is taken out of v and
\* handed to String::from_utf8; the String is the same buffer; the Vec of a
\* FromUtf8Error is dropped by map_err
SensitiveString_try_from(h, v) ==
    IF is_utf8(h[v.buf].data)
    THEN Done(h, Some(Sensitive("String", v.buf)), Ok(None))
    ELSE Done(Free(h, v.buf), None, Err("InvalidUtf8String"))

\* From<SensitiveString> for SensitiveVec: into_bytes is the same buffer
SensitiveVec_from(h, str) == Done(h, Some(Sensitive("Vec<u8>", str.buf)), Ok(None))

\* SensitiveString::decode_base64: the capacity of the destination
decode_base64_capacity(len) == decoded_len_estimate(len)

\* SensitiveString::decode_base64; Engine::decode_vec resizes the
\* destination to the estimate, decodes, and truncates
SensitiveString_decode_base64(h, self, engine) ==
    LET d == h[self.buf].data
        len == decode_base64_capacity(DataLen(d))
        value == Len(h) + 1
        h1 == Alloc(h, len, 0)
    IN  IF ~is_base64(d, engine.padding)
        THEN Done(Sensitive_drop(Sensitive_drop(h1, Sensitive("Vec<u8>", value)), self),
                  None, Err("InvalidKey"))
        ELSE LET h2 == Write(h1, value, decoded_len_estimate(DataLen(d)), Decoded(d))
                 h3 == Truncate(h2, value, DataLen(Decoded(d)))
             IN  Done(Sensitive_drop(h3, self), Some(Sensitive("Vec<u8>", value)), Ok(None))

\* Sensitive::encode_base64: the length of the destination
encode_base64_capacity(len, engine) == encoded_len(len, engine.padding)

\* Sensitive::encode_base64: vec![0u8; len], encode_slice into
\* value[..len] (which refuses a slice that is too short), and the Vec made
\* a String
Sensitive_encode_base64(h, self, engine) ==
    LET d == h[self.buf].data
        len == encode_base64_capacity(DataLen(d), engine)
        value == Len(h) + 1
        h1 == Alloc(h, len, len)
    IN  IF len < encoded_len(DataLen(d), engine.padding)
        THEN Done(Sensitive_drop(Sensitive_drop(h1, Sensitive("Vec<u8>", value)), self),
                  None, Err("panic: Valid base64 string length"))
        ELSE LET h2 == Fill(h1, value, Encoded(d, engine.padding))
                 str == SensitiveString_try_from(h2, Sensitive("Vec<u8>", value))
             IN  Done(Sensitive_drop(str.heap, self), str.made, str.res)

STANDARD_NO_PAD == [padding |-> FALSE]

\* variant: the separator is not counted
CardCapacityWithoutSeparator(brand_len, number_len) == brand_len + number_len

\* build_subtitle_card: the capacity of the subtitle of a brand and a number
card_subtitle_capacity(brand_len, number_len) == brand_len + 2 + number_len

\* build_subtitle_card on containers: brand and number are Options of
\* containers; filter drops what it rejects; the digits shown are copied to
\* a String of their size; brand and digits are joined in a String of the
\* size of both
Sensitive_build_subtitle_card(h, brand_in, number_in) ==
    LET bytes(o) == IF IsSome(o) THEN Some(h[Unwrap(o).buf].data.bytes) ELSE None
        out == Data(build_subtitle_card(bytes(brand_in), bytes(number_in)).val)
        keep_brand == IsSome(brand_in) /\ DataLen(h[Unwrap(brand_in).buf].data) > 0
        keep_number == IsSome(number_in) /\ DataLen(h[Unwrap(number_in).buf].data) > 4
        h1 == IF IsSome(brand_in) /\ ~keep_brand THEN Sensitive_drop(h, Unwrap(brand_in)) ELSE h
        h2 == IF IsSome(number_in) /\ ~keep_number THEN Sensitive_drop(h1, Unwrap(number_in))
              ELSE h1
        n == h[Unwrap(number_in).buf].data.bytes
        desired_len == IF SubSeq(n, 1, 2) \in {<<"3", "4">>, <<"3", "7">>} THEN 5 ELSE 4
        str == Len(h) + 1
        digits == Data(<<"*">> \o SubSeq(n, Len(n) - desired_len + 1, Len(n)))
        h3 == IF keep_number
              THEN Sensitive_drop(
                     Write(Write(Alloc(h2, desired_len + 1, 0), str, 1, Data(<<"*">>)),
                           str, desired_len, digits),
                     Unwrap(number_in))
              ELSE h2
    IN  IF keep_brand /\ keep_number
        THEN LET brand == Unwrap(brand_in).buf
                 length == card_subtitle_capacity(h3[brand].len, h3[str].len)
                 joined == Len(h3) + 1
                 h4 == Alloc(h3, length, 0)
                 h5 == Write(h4, joined, h3[brand].len, h3[brand].data)
                 h6 == Write(h5, joined, 2, Data(h3[brand].data.bytes \o <<",", " ">>))
                 h7 == Write(h6, joined, h3[str].len, out)
             IN  Done(Sensitive_drop(Sensitive_drop(h7, Sensitive("String", str)),
                                     Unwrap(brand_in)),
                      Some(Sensitive("String", joined)), Ok(None))
        ELSE IF keep_brand THEN Done(h3, brand_in, Ok(None))
        ELSE IF keep_number THEN Done(h3, Some(Sensitive("String", str)), Ok(None))
        ELSE Done(Alloc(h3, 0, 0), Some(Sensitive("String", Len(h3) + 1)), Ok(None))

\* build_subtitle_identity: the capacity of the subtitle of two names
identity_subtitle_capacity(first_len, last_len) == first_len + 1 + last_len

\* build_subtitle_identity on containers
Sensitive_build_subtitle_identity(h, first_in, last_in) ==
    LET bytes(o) == IF IsSome(o) THEN Some(h[Unwrap(o).buf].data.bytes) ELSE None
        out == Data(build_subtitle_identity(bytes(first_in), bytes(last_in)))
        keep_first == IsSome(first_in) /\ DataLen(h[Unwrap(first_in).buf].data) > 0
        keep_last == IsSome(last_in) /\ DataLen(h[Unwrap(last_in).buf].data) > 0
        h1 == IF IsSome(first_in) /\ ~keep_first THEN Sensitive_drop(h, Unwrap(first_in)) ELSE h
        h2 == IF IsSome(last_in) /\ ~keep_last THEN Sensitive_drop(h1, Unwrap(last_in)) ELSE h1
    IN  IF keep_first /\ keep_last
        THEN LET first_name == Unwrap(first_in).buf
                 last_name == Unwrap(last_in).buf
                 length == identity_subtitle_capacity(h2[first_name].len, h2[last_name].len)
                 joined == Len(h2) + 1
                 h3 == Alloc(h2, length, 0)
                 h4 == Write(h3, joined, h2[first_name].len, h2[first_name].data)
                 h5 == Write(h4, joined, 1, Data(h2[first_name].data.bytes \o <<" ">>))
                 h6 == Write(h5, joined, h2[last_name].len, out)
             IN  Done(Sensitive_drop(Sensitive_drop(h6, Unwrap(last_in)), Unwrap(first_in)),
                      Some(Sensitive("String", joined)), Ok(None))
        ELSE IF keep_first THEN Done(h2, first_in, Ok(None))
        ELSE IF keep_last THEN Done(h2, last_in, Ok(None))
        ELSE Done(Alloc(h2, 0, 0), Some(Sensitive("String", Len(h2) + 1)), Ok(None))

\* std::any::type_name::<V>()
type_name(type) == IF type = "String" THEN "alloc::string::String" ELSE "alloc::vec::Vec<u8>"

\* variant: the rendering a derived Debug gives
FmtDebugDerived(type, value) == <<"Sensitive { value: ">> \o value \o <<" }">>

\* fmt::Debug for Sensitive
fmt_debug(type, value) ==
    <<"Sensitive { type: ", type_name(type), ", value: ", "********", " }">>

\* ------------------------------------------------------------ password.rs
\* IdentityTokenResponse, with the fields login_password and
\* process_response read
Authenticated(access_token, key, private_key, reset_master_password, force_password_reset) ==
    [tag |-> "Authenticated",
     access_token |-> access_token, key |-> key, private_key |-> private_key,
     reset_master_password |-> reset_master_password,
     force_password_reset |-> force_password_reset]
Payload(access_token) == [tag |-> "Payload", access_token |-> access_token]
TwoFactorRequired(two_factor_providers, captcha_token) ==
    [tag |-> "TwoFactorRequired",
     two_factor_providers |-> two_factor_providers, captcha_token |-> captcha_token]
CaptchaRequired(site_key) == [tag |-> "CaptchaRequired", site_key |-> site_key]
Refreshed(access_token) == [tag |-> "Refreshed", access_token |-> access_token]

\* From<...> for TwoFactorProviders
TwoFactorProviders_from(two_factor_providers) == [providers |-> two_factor_providers]

\* From<String> for CaptchaResponse
CaptchaResponse_from(site_key) == [site_key |-> site_key]

PasswordLoginResponse(authenticated, reset_master_password, force_password_reset, two_factor, captcha) ==
    [authenticated |-> authenticated,
     reset_master_password |-> reset_master_password,
     force_password_reset |-> force_password_reset,
     two_factor |-> two_factor,
     captcha |-> captcha]

\* PasswordLoginResponse::process_response
process_response(response) ==
    CASE response.tag = "Authenticated" ->
           Ok(PasswordLoginResponse(TRUE, response.reset_master_password,
                                    response.force_password_reset, None, None))
      [] response.tag = "Payload" ->
           Ok(PasswordLoginResponse(TRUE, FALSE, FALSE, None, None))
      [] response.tag = "TwoFactorRequired" ->
           Ok(PasswordLoginResponse(FALSE, FALSE, FALSE,
                                    Some(TwoFactorProviders_from(response.two_factor_providers)),
                                    IF IsSome(response.captcha_token)
                                    THEN Some(CaptchaResponse_from(Unwrap(response.captcha_token)))
                                    ELSE None))
      [] response.tag = "CaptchaRequired" ->
           Ok(PasswordLoginResponse(FALSE, FALSE, FALSE, None,
                                    Some(CaptchaResponse_from(response.site_key))))
      [] response.tag = "Refreshed" ->
           Err("panic: Got a refresh_token answer to a login request")

\* the Client, as login_password changes it: tokens is what set_tokens stores
\* (access token, refresh token and expiry of one answer, named by the access
\* token), login_method what set_login_method stores, unlocked whether
\* initialize_user_crypto_master_key has succeeded
Client(tokens, login_method, unlocked) ==
    [tokens |-> tokens, login_method |-> login_method, unlocked |-> unlocked]

\* login_password: the answer of the identity server and the outcome of
\* parsing the two keys and of initialize_user_crypto_master_key are inputs
login_password(client, email, password, k, response, crypto_ok) ==
    LET master_key == derive(password, email, k)
        password_hash == IF master_key.ok
                         THEN derive_master_key_hash(master_key.val, password,
                                                     ServerAuthorization)
                         ELSE Err(master_key.err)
        logged == [client EXCEPT !.tokens = Some(response.access_token),
                                 !.login_method = Some([email |-> email, kdf |-> k])]
    IN  IF ~master_key.ok THEN [client |-> client, res |-> Err(master_key.err)]
        ELSE IF ~password_hash.ok THEN [client |-> client, res |-> Err(password_hash.err)]
        ELSE IF response.tag = "Authenticated"
        THEN IF IsNone(response.key) \/ IsNone(response.private_key)
             THEN [client |-> logged, res |-> Err("MissingFields")]
             ELSE IF ~crypto_ok THEN [client |-> logged, res |-> Err("Crypto")]
             ELSE [client |-> [logged EXCEPT !.unlocked = TRUE],
                   res |-> process_response(response)]
        ELSE [client |-> client, res |-> process_response(response)]

\* ------------------------------------------------------------ bitwarden-json client.rs
\* an input string of run_command, by what the two parsers make of it
InputKinds == {"not_json", "not_command", "command_with_nulls", "command"}

Response_error(message) == [success |-> FALSE, message |-> message]
Response_of(result) == [success |-> result, message |-> IF result THEN "" ELSE "command failed"]

\* run_command up to the lock: serde_json::from_str, the removal of null
\* members, serde_json::from_value
parse_command(input) ==
    IF input = "not_json" THEN Err("Invalid command string")
    ELSE LET cmd_value == IF input = "command_with_nulls" THEN "command" ELSE input
         IN  IF cmd_value = "command" THEN Ok("Command")
             ELSE Err("Invalid command value")

\* variant: the lock is handed out whoever holds it
LockAlwaysGranted(lock, caller) == Some(Some(caller))

\* Mutex::lock, polled once: Some of the new state of the mutex when the
\* guard is handed to the caller, None while another caller holds it
Mutex_lock(lock, caller) == IF IsNone(lock) THEN Some(Some(caller)) ELSE None

\* a command reads or writes the inner client: the client notes a caller
\* that comes in while the command of another one is running
Client_access(client, caller) ==
    [client EXCEPT !.running = Some(caller),
                   !.seen = client.seen \cup {caller},
                   !.interleaved = client.interleaved
                                   \/ (IsSome(client.running) /\ client.running # Some(caller))]

\* the command has produced its result
Client_finish(client) == [client EXCEPT !.running = None]

\* ------------------------------------------------------------ bws secret_common.rs
\* Option::unwrap_or
unwrap_or(opt, default) == IF IsSome(opt) THEN Unwrap(opt) ELSE default
\* Option::or
or(opt, optb) == IF IsSome(opt) THEN opt ELSE optb

\* edit: the SecretPutRequest made of the command model and of old_secret
SecretPutRequest(secret, old_secret) ==
    [key |-> unwrap_or(secret.key, old_secret.key),
     value |-> unwrap_or(secret.value, old_secret.value),
     note |-> unwrap_or(secret.note, old_secret.note),
     project_id |-> or(secret.project_id, old_secret.project_id)]

\* the operations of secret_common on the secrets the server holds: store is
\* the set of their ids, secret i belongs to project i, api_ok is whether
\* the requests to the server succeed; each returns its result and the store
Done2(res, store) == [res |-> res, store |-> store]

\* secret_common::list
secret_common_list(store, organization_id, project_id, api_ok) ==
    IF ~api_ok THEN Done2(Err("api error"), store)
    ELSE Done2(Ok(IF IsSome(project_id) THEN store \cap {Unwrap(project_id)} ELSE store), store)

\* secret_common::get
secret_common_get(store, secret_id, api_ok) ==
    IF ~api_ok \/ secret_id \notin store THEN Done2(Err("api error"), store)
    ELSE Done2(Ok(secret_id), store)

\* secret_common::delete
secret_common_delete(store, secret_ids, api_ok) ==
    IF ~api_ok THEN Done2(Err("api error"), store)
    ELSE Done2(Ok(secret_ids \cap store), store \ secret_ids)

\* ------------------------------------------------------------ bws serve.rs
\* Option::expect
expect(opt, msg) == IF IsSome(opt) THEN Ok(Unwrap(opt)) ELSE Err("panic: " \o msg)

\* the SecretCommand values process_request matches on
SecretCommand(tag, arg) == [tag |-> tag, arg |-> arg]

\* process_request: the result and the store it leaves; a failed expect is
\* the panic of the task
process_request(command, store, organization_id, api_ok) ==
    CASE command.tag = "List" ->
            LET org == expect(organization_id, "an organization ID is required to list secrets")
                r == secret_common_list(store, org.val, command.arg, api_ok)
            IN  IF ~org.ok THEN Done2(org, store)
                ELSE IF ~r.res.ok THEN r
                ELSE Done2(Ok([tag |-> "List", vec |-> r.res.val]), r.store)
      [] command.tag = "Get" ->
            LET r == secret_common_get(store, command.arg, api_ok)
            IN  IF ~r.res.ok THEN r
                ELSE Done2(Ok([tag |-> "Get", vec |-> {r.res.val}]), r.store)
      [] command.tag = "Create" ->
            LET org == expect(organization_id, "an organization ID should be provided to create secrets")
            IN  IF ~org.ok THEN Done2(org, store)
                ELSE IF ~api_ok THEN Done2(Err("api error"), store)
                ELSE Done2(Ok([tag |-> "Create", vec |-> {command.arg}]), store \cup {command.arg})
      [] command.tag = "Edit" ->
            LET org == expect(organization_id, "an organization ID should be provided to edit a secret")
            IN  IF ~org.ok THEN Done2(org, store)
                ELSE IF ~api_ok \/ command.arg \notin store THEN Done2(Err("api error"), store)
                ELSE Done2(Ok([tag |-> "Edit", vec |-> {command.arg}]), store)
      [] command.tag = "Delete" ->
            LET r == secret_common_delete(store, command.arg, api_ok)
            IN  IF ~r.res.ok THEN r
                ELSE Done2(Ok([tag |-> "Delete", vec |-> r.res.val]), r.store)

\* the panics of the three expects of process_request
ExpectPanics ==
    {expect(None, m).err : m \in {"an organization ID is required to list secrets",
                                  "an organization ID should be provided to create secrets",
                                  "an organization ID should be provided to edit a secret"}}

\* what a handler turns the result of process_request into: the Json of the
\* data, the Json of the error, or no answer when the task has panicked
Json_of(r) ==
    IF r.ok THEN [kind |-> "data", body |-> r.val.vec, error |-> ""]
    ELSE IF r.err \in ExpectPanics
         THEN [kind |-> "panic", body |-> {}, error |-> r.err]
         ELSE [kind |-> "error", body |-> {}, error |-> r.err]

Handled(r) == [json |-> Json_of(r.res), store |-> r.store]

\* secret_get_handler
secret_get_handler(secret_id, store, api_ok) ==
    Handled(process_request(SecretCommand("Get", secret_id), store, None, api_ok))

\* variant: the list handler passes no organization id on
ListHandlerWithoutOrganization(payload, store, organization_id, api_ok) ==
    Handled(process_request(SecretCommand("List", payload.project_id), store, None, api_ok))

\* secret_list_handler
secret_list_handler(payload, store, organization_id, api_ok) ==
    Handled(process_request(SecretCommand("List", payload.project_id), store,
                            Some(organization_id), api_ok))

\* secrets_delete_handler
secrets_delete_handler(secret_ids, store, api_ok) ==
    Handled(process_request(SecretCommand("Delete", secret_ids), store, None, api_ok))

\* ------------------------------------------------------------ state
VARIABLES
    master_key,     \* the MasterKey of the session
    user_key,       \* Option: the plaintext user key last wrapped
    produced,       \* Option: [by, enc]: what encrypt_user_key returned, and under which master key
    protected,      \* Option: the wrapped user key as stored (possibly altered since)
    mk_res,         \* the last call and its result
    view,           \* the CipherView the caller holds; encrypt_with_key consumes it,
                    \* and from then on view records what the stored cipher was made of
    cipher,         \* Option: the Cipher made of view by encrypt_with_key, as stored
    pristine,       \* Option: the Cipher exactly as encrypt_with_key returned it
    gen,            \* number of item keys drawn from the random generator so far
    touched,        \* number of alterations made to the stored cipher
    cv_res          \* the last call on the vault item, its inputs and its result

mk_vars == <<master_key, user_key, produced, protected, mk_res>>
cv_vars == <<view, cipher, pristine, gen, touched, cv_res>>
VARIABLES
    kdf,            \* the Kdf of the account
    kd_password,    \* the password the master key was derived from
    kd_key,         \* Option: the MasterKey returned by MasterKey::derive
    kd_hash,        \* per HashPurpose, Option: the hash derived from kd_key and kd_password
    kd_res          \* the last call of the derivation functions and its result

kd_vars == <<kdf, kd_password, kd_key, kd_hash, kd_res>>

VARIABLES
    heap,           \* the heap buffers allocated so far, live or released
    sens,           \* the Sensitive containers alive: their type and their buffer
    rendered,       \* the last two Debug renderings: the type and bytes rendered, and the text
    sv_res          \* the last operation on a container and its result

sv_vars == <<heap, sens, rendered, sv_res>>

VARIABLES
    lg_client,      \* the Client: its tokens, its login method, whether its keys are set
    lg_response,    \* Option: the last answer of the identity server
    lg_res          \* the last login call and its result

lg_vars == <<lg_client, lg_response, lg_res>>

VARIABLES
    sb_brand,       \* Option: the decrypted brand handed to build_subtitle_card
    sb_number,      \* Option: the decrypted card number handed to it
    sb_res          \* the last call of the builder and its result

sb_vars == <<sb_brand, sb_number, sb_res>>

VARIABLES
    jc_pc,          \* per caller of run_command: where it is in the function
    jc_cmd,         \* per caller: Option, the Command its input parsed to
    jc_step,        \* per caller: the accesses to the inner client made so far
    jc_lock,        \* the Mutex around the inner client: Option of the caller holding it
    jc_client,      \* the inner bitwarden::Client: the command running in it, what it has seen
    jc_resp         \* per caller: Option, the response string returned

jc_vars == <<jc_pc, jc_cmd, jc_step, jc_lock, jc_client, jc_resp>>

VARIABLES
    ed_store,       \* the secret as the server stores it
    ed_pc,          \* per run of secret_common::edit: where it is
    ed_secret,      \* per run: the SecretEditCommandModel it was called with
    ed_old,         \* per run: Option, the old_secret it has read
    ed_res          \* the last update applied: who, the store before it, the outcome

ed_vars == <<ed_store, ed_pc, ed_secret, ed_old, ed_res>>

VARIABLES
    sr_store,       \* the ids of the secrets the server side holds
    sr_resp,        \* the answer to the last request of the REST server
    sr_log          \* the kinds of the answers given so far, oldest first

sr_vars == <<sr_store, sr_resp, sr_log>>
more_vars == <<sb_vars, jc_vars, ed_vars, sr_vars>>
sb_frame == <<mk_vars, cv_vars, kd_vars, sv_vars, lg_vars, jc_vars, ed_vars, sr_vars>>
jc_frame == <<mk_vars, cv_vars, kd_vars, sv_vars, lg_vars, sb_vars, ed_vars, sr_vars>>
ed_frame == <<mk_vars, cv_vars, kd_vars, sv_vars, lg_vars, sb_vars, jc_vars, sr_vars>>
sr_frame == <<mk_vars, cv_vars, kd_vars, sv_vars, lg_vars, sb_vars, jc_vars, ed_vars>>
old_vars == <<mk_vars, cv_vars, kd_vars, sv_vars, lg_vars>>
aux_vars == <<kd_vars, sv_vars, lg_vars, more_vars>>
vars == <<mk_vars, cv_vars, aux_vars>>

MasterKeys ==
    {SymmetricCryptoKey(RawBlock(n), None) : n \in 1..NumMasterKeys}
    \cup {SymmetricCryptoKey(Derived(RawBlock(n), "k"), Some(Derived(RawBlock(n), "m")))
            : n \in 1..NumMasterKeys}

\* user keys a caller may hand to encrypt_user_key: the 32-byte and the 64-byte form
UserKeys ==
    {SymmetricCryptoKey(RawBlock(100 + n), None) : n \in 1..NumUserKeys}
    \cup {SymmetricCryptoKey(RawBlock(100 + n), Some(RawBlock(200 + n))) : n \in 1..NumUserKeys}

NoCall == [op |-> "none", ok |-> TRUE, val |-> None, err |-> "None", steps |-> <<>>]
Call(op, res, steps) ==
    [op |-> op, ok |-> res.ok, val |-> res.val, err |-> res.err, steps |-> steps]

MKInit ==
    /\ master_key \in MasterKeys
    /\ user_key = None
    /\ produced = None
    /\ protected = None
    /\ mk_res = NoCall

\* MasterKey::new / MasterKey::derive with another password
NewMasterKey ==
    /\ UNCHANGED <<cv_vars, aux_vars>>
    /\ \E k \in MasterKeys : master_key' = k
    /\ mk_res' = NoCall
    /\ UNCHANGED <<user_key, produced, protected>>

MakeUserKey ==
    /\ UNCHANGED <<cv_vars, aux_vars>>
    /\ \E rng \in 1..NumRng, iv \in 1..NumIv :
        LET r == make_user_key(rng, Iv(iv, "user_key", 0), master_key) IN
        /\ mk_res' = Call("make_user_key", r, <<>>)
        /\ IF r.ok
           THEN /\ user_key' = Some(r.val.user_key)
                /\ produced' = Some([by |-> master_key, enc |-> r.val.protected])
                /\ protected' = Some(r.val.protected)
           ELSE UNCHANGED <<user_key, produced, protected>>
        /\ UNCHANGED master_key

EncryptUserKey ==
    /\ UNCHANGED <<cv_vars, aux_vars>>
    /\ \E uk \in UserKeys, iv \in 1..NumIv :
        LET r == encrypt_user_key(master_key, uk, Iv(iv, "user_key", 0)) IN
        /\ mk_res' = Call("encrypt_user_key", r, <<>>)
        /\ IF r.ok
           THEN /\ user_key' = Some(uk)
                /\ produced' = Some([by |-> master_key, enc |-> r.val])
                /\ protected' = Some(r.val)
           ELSE UNCHANGED <<user_key, produced, protected>>
        /\ UNCHANGED master_key

\* the stored envelope is altered outside the program: one bit of the
\* ciphertext or of the MAC is inverted
FlipBit ==
    /\ UNCHANGED <<cv_vars, aux_vars>>
    /\ IsSome(protected)
    /\ \E part \in {"data", "mac"}, bit \in 1..NumBits :
        LET e == Unwrap(protected) IN
        /\ e[part].flip = 0
        /\ protected' = Some([e EXCEPT ![part].flip = bit])
    /\ mk_res' = NoCall
    /\ UNCHANGED <<master_key, user_key, produced>>

DecryptUserKey ==
    /\ UNCHANGED <<cv_vars, aux_vars>>
    /\ IsSome(protected)
    /\ LET r == decrypt_user_key(master_key, Unwrap(protected)) IN
       mk_res' = Call("decrypt_user_key", r, r.steps)
    /\ UNCHANGED <<master_key, user_key, produced, protected>>

MKNext ==
    \/ NewMasterKey
    \/ MakeUserKey
    \/ EncryptUserKey
    \/ FlipBit
    \/ DecryptUserKey

MKIdle ==
    /\ master_key = SymmetricCryptoKey(RawBlock(1), None)
    /\ user_key = None
    /\ produced = None
    /\ protected = None
    /\ mk_res = NoCall

\* ------------------------------------------------------------ key derivation
\* passwords are byte strings
Passwords == {<<300 + n>> : n \in 1..NumPasswords}
Emails == {400 + n : n \in 1..NumEmails}
\* the numbers a caller may try to make a Kdf parameter of
KdfInputs == 0..MaxKdfParam

KDNoCall == [op |-> "none", ok |-> TRUE, err |-> "None", purpose |-> 0]
NoHashes == [p \in HashPurpose |-> None]

KDInit ==
    /\ kdf = Kdf_default
    /\ kd_password \in Passwords
    /\ kd_key = None
    /\ kd_hash = NoHashes
    /\ kd_res = KDNoCall

KDIdle ==
    /\ kdf = Kdf_default
    /\ kd_password = <<301>>
    /\ kd_key = None
    /\ kd_hash = NoHashes
    /\ kd_res = KDNoCall

\* Kdf::default()
KdfDefault ==
    /\ kdf' = Kdf_default
    /\ kd_key' = None
    /\ kd_hash' = NoHashes
    /\ kd_res' = [KDNoCall EXCEPT !.op = "kdf_default"]
    /\ UNCHANGED kd_password
    /\ UNCHANGED <<mk_vars, cv_vars, sv_vars, lg_vars, more_vars>>

\* Kdf::Argon2id with the default_argon2_* parameters
KdfArgon2Defaults ==
    /\ kdf' = Kdf_Argon2id(default_argon2_iterations, default_argon2_memory,
                           default_argon2_parallelism)
    /\ kd_key' = None
    /\ kd_hash' = NoHashes
    /\ kd_res' = [KDNoCall EXCEPT !.op = "kdf_argon2_defaults"]
    /\ UNCHANGED kd_password
    /\ UNCHANGED <<mk_vars, cv_vars, sv_vars, lg_vars, more_vars>>

\* a Kdf with parameters of the caller: each goes through NonZeroU32::new
KdfNew ==
    /\ \E tag \in {"PBKDF2", "Argon2id"} : \E i, m, q \in KdfInputs :
        LET iterations == NonZeroU32_new(i)
            memory == NonZeroU32_new(m)
            parallelism == NonZeroU32_new(q)
        IN  IF tag = "PBKDF2"
            THEN /\ m = 0 /\ q = 0
                 /\ IF IsSome(iterations)
                    THEN /\ kdf' = Kdf_PBKDF2(Unwrap(iterations))
                         /\ kd_res' = [KDNoCall EXCEPT !.op = "kdf_new"]
                    ELSE /\ kdf' = kdf
                         /\ kd_res' = [KDNoCall EXCEPT !.op = "kdf_new", !.ok = FALSE,
                                                       !.err = "Zero"]
            ELSE IF IsSome(iterations) /\ IsSome(memory) /\ IsSome(parallelism)
                 THEN /\ kdf' = Kdf_Argon2id(Unwrap(iterations), Unwrap(memory),
                                             Unwrap(parallelism))
                      /\ kd_res' = [KDNoCall EXCEPT !.op = "kdf_new"]
                 ELSE /\ kdf' = kdf
                      /\ kd_res' = [KDNoCall EXCEPT !.op = "kdf_new", !.ok = FALSE,
                                                    !.err = "Zero"]
    /\ kd_key' = None
    /\ kd_hash' = NoHashes
    /\ UNCHANGED kd_password
    /\ UNCHANGED <<mk_vars, cv_vars, sv_vars, lg_vars, more_vars>>

\* MasterKey::derive
Derive ==
    /\ \E password \in Passwords, email \in Emails :
        LET res == derive(password, email, kdf)
        IN  /\ kd_password' = password
            /\ kd_key' = IF res.ok THEN Some(res.val) ELSE None
            /\ kd_res' = [KDNoCall EXCEPT !.op = "derive", !.ok = res.ok, !.err = res.err]
    /\ kd_hash' = NoHashes
    /\ UNCHANGED kdf
    /\ UNCHANGED <<mk_vars, cv_vars, sv_vars, lg_vars, more_vars>>

\* MasterKey::derive_master_key_hash
DeriveMasterKeyHash ==
    /\ IsSome(kd_key)
    /\ \E password \in Passwords, purpose \in HashPurpose :
        LET res == derive_master_key_hash(Unwrap(kd_key), password, purpose)
        IN  /\ kd_hash' = [kd_hash EXCEPT ![purpose] =
                             IF res.ok THEN Some([password |-> password, hash |-> res.val])
                             ELSE None]
            /\ kd_res' = [op |-> "derive_master_key_hash", ok |-> res.ok, err |-> res.err,
                          purpose |-> purpose]
    /\ UNCHANGED <<kdf, kd_password, kd_key>>
    /\ UNCHANGED <<mk_vars, cv_vars, sv_vars, lg_vars, more_vars>>

KDNext ==
    \/ KdfDefault
    \/ KdfArgon2Defaults
    \/ KdfNew
    \/ Derive
    \/ DeriveMasterKeyHash

\* ------------------------------------------------------------ Sensitive: state machine
VecContents == {<<"t", "e", "s", "t">>, <<"xFF", "a">>}
StringContents == {<<"t", "e", "s", "t">>, <<"a", "b">>}
Engines == {STANDARD, STANDARD_NO_PAD}
Brands == {None, Some(<<>>), Some(<<"V">>)}
Numbers == {None, Some(<<"1", "2", "3">>), Some(<<"4", "1", "1", "1", "1">>),
            Some(<<"3", "4", "1", "2", "3", "4">>)}
FirstNames == {None, Some(<<>>), Some(<<"J">>)}
LastNames == {None, Some(<<"D">>)}

SVNoCall == [op |-> "none", ok |-> TRUE, err |-> "", type |-> "", out |-> <<>>]
SVCall(op, r) ==
    [op |-> op, ok |-> r.res.ok, err |-> r.res.err,
     type |-> IF IsSome(r.made) THEN Unwrap(r.made).type ELSE "",
     out |-> IF IsSome(r.made) THEN r.heap[Unwrap(r.made).buf].data.bytes ELSE <<>>]

Without(seq, i) == SubSeq(seq, 1, i - 1) \o SubSeq(seq, i + 1, Len(seq))

\* the call consumed sens[i] and returned r
Returned(op, i, r) ==
    /\ heap' = r.heap
    /\ sens' = Without(sens, i) \o r.made
    /\ sv_res' = SVCall(op, r)
    /\ UNCHANGED rendered

SVInit ==
    /\ heap = <<>>
    /\ sens = <<>>
    /\ rendered = <<>>
    /\ sv_res = SVNoCall

SVIdle == SVInit

SensitiveNew ==
    \E type \in {"String", "Vec<u8>"} :
      \E bytes \in (IF type = "String" THEN StringContents ELSE VecContents) :
        /\ Len(heap) < MaxBufs
        /\ Len(sens) < MaxSens
        /\ Returned("new", Len(sens) + 1, Sensitive_new(heap, type, Data(bytes)))
        /\ UNCHANGED <<mk_vars, cv_vars, kd_vars, lg_vars, more_vars>>

SensitiveDrop ==
    \E i \in DOMAIN sens :
        /\ Returned("drop", i, Done(Sensitive_drop(heap, sens[i]), None, Ok(None)))
        /\ UNCHANGED <<mk_vars, cv_vars, kd_vars, lg_vars, more_vars>>

TryFromVec ==
    \E i \in DOMAIN sens :
        /\ sens[i].type = "Vec<u8>"
        /\ Returned("try_from", i, SensitiveString_try_from(heap, sens[i]))
        /\ UNCHANGED <<mk_vars, cv_vars, kd_vars, lg_vars, more_vars>>

FromString ==
    \E i \in DOMAIN sens :
        /\ sens[i].type = "String"
        /\ Returned("from", i, SensitiveVec_from(heap, sens[i]))
        /\ UNCHANGED <<mk_vars, cv_vars, kd_vars, lg_vars, more_vars>>

EncodeBase64 ==
    \E i \in DOMAIN sens :
      \E engine \in Engines :
        /\ Len(heap) < MaxBufs
        /\ Returned("encode_base64", i, Sensitive_encode_base64(heap, sens[i], engine))
        /\ UNCHANGED <<mk_vars, cv_vars, kd_vars, lg_vars, more_vars>>

DecodeBase64 ==
    \E i \in DOMAIN sens :
      \E engine \in Engines :
        /\ sens[i].type = "String"
        /\ Len(heap) < MaxBufs
        /\ Returned("decode_base64", i, SensitiveString_decode_base64(heap, sens[i], engine))
        /\ UNCHANGED <<mk_vars, cv_vars, kd_vars, lg_vars, more_vars>>

FmtDebug ==
    \E i \in DOMAIN sens :
      LET value == heap[sens[i].buf].data.bytes
          out == fmt_debug(sens[i].type, value)
          r == [type |-> sens[i].type, value |-> value, out |-> out]
      IN  /\ rendered' = IF Len(rendered) < 2 THEN Append(rendered, r) ELSE <<rendered[2], r>>
          /\ sv_res' = [op |-> "debug", ok |-> TRUE, err |-> "", type |-> sens[i].type,
                        out |-> out]
          /\ UNCHANGED <<heap, sens>>
          /\ UNCHANGED <<mk_vars, cv_vars, kd_vars, lg_vars, more_vars>>

\* the decrypted fields of a card, handed to build_subtitle_card
BuildSubtitleCard ==
    \E brand \in Brands :
      \E number \in Numbers :
        LET b == IF IsSome(brand) THEN Sensitive_new(heap, "String", Data(Unwrap(brand)))
                 ELSE Done(heap, None, Ok(None))
            n == IF IsSome(number) THEN Sensitive_new(b.heap, "String", Data(Unwrap(number)))
                 ELSE Done(b.heap, None, Ok(None))
        IN  /\ Len(heap) + 4 <= MaxBufs
            /\ Len(sens) < MaxSens
            /\ Returned("build_subtitle_card", Len(sens) + 1,
                        Sensitive_build_subtitle_card(n.heap, b.made, n.made))
            /\ UNCHANGED <<mk_vars, cv_vars, kd_vars, lg_vars, more_vars>>

\* the decrypted names of an identity, handed to build_subtitle_identity
BuildSubtitleIdentity ==
    \E first_name \in FirstNames :
      \E last_name \in LastNames :
        LET f == IF IsSome(first_name)
                 THEN Sensitive_new(heap, "String", Data(Unwrap(first_name)))
                 ELSE Done(heap, None, Ok(None))
            l == IF IsSome(last_name)
                 THEN Sensitive_new(f.heap, "String", Data(Unwrap(last_name)))
                 ELSE Done(f.heap, None, Ok(None))
        IN  /\ Len(heap) + 3 <= MaxBufs
            /\ Len(sens) < MaxSens
            /\ Returned("build_subtitle_identity", Len(sens) + 1,
                        Sensitive_build_subtitle_identity(l.heap, f.made, l.made))
            /\ UNCHANGED <<mk_vars, cv_vars, kd_vars, lg_vars, more_vars>>

SVNext ==
    \/ SensitiveNew
    \/ SensitiveDrop
    \/ TryFromVec
    \/ FromString
    \/ EncodeBase64
    \/ DecodeBase64
    \/ BuildSubtitleCard
    \/ BuildSubtitleIdentity

SVDebugNext ==
    \/ SensitiveNew
    \/ SensitiveDrop
    \/ TryFromVec
    \/ FromString
    \/ FmtDebug

\* ------------------------------------------------------------ login: state machine
Tokens == {500 + n : n \in 1..NumTokens}
Providers == SUBSET (1..NumProviders)
Keys == {None, Some(<<"2", ".">>)}
Responses ==
    {Authenticated(t, k, p, r, f) :
        t \in Tokens, k \in Keys, p \in Keys, r \in BOOLEAN, f \in BOOLEAN}
    \cup {Payload(t) : t \in Tokens}
    \cup {TwoFactorRequired(p, c) : p \in Providers, c \in {None} \cup {Some(t) : t \in Tokens}}
    \cup {CaptchaRequired(t) : t \in Tokens}
    \cup {Refreshed(t) : t \in Tokens}

LGNoCall == [op |-> "none", ok |-> TRUE, err |-> "None", val |-> None, email |-> None,
             before |-> Client(None, None, FALSE)]

LGInit ==
    /\ lg_client = Client(None, None, FALSE)
    /\ lg_response = None
    /\ lg_res = LGNoCall

LGIdle == LGInit

\* login_password
LoginPassword ==
    \E email \in Emails, password \in Passwords, response \in Responses, crypto_ok \in BOOLEAN :
        LET r == login_password(lg_client, email, password, Kdf_default, response, crypto_ok)
        IN  /\ lg_client' = r.client
            /\ lg_response' = Some(response)
            /\ lg_res' = [op |-> "login_password", ok |-> r.res.ok, err |-> r.res.err,
                          val |-> IF r.res.ok THEN Some(r.res.val) ELSE None,
                          email |-> Some(email), before |-> lg_client]
            /\ UNCHANGED <<mk_vars, cv_vars, kd_vars, sv_vars, more_vars>>

\* PasswordLoginResponse::process_response
ProcessResponse ==
    \E response \in Responses :
        LET res == process_response(response)
        IN  /\ lg_response' = Some(response)
            /\ lg_res' = [op |-> "process_response", ok |-> res.ok, err |-> res.err,
                          val |-> IF res.ok THEN Some(res.val) ELSE None,
                          email |-> None, before |-> lg_client]
            /\ UNCHANGED lg_client
            /\ UNCHANGED <<mk_vars, cv_vars, kd_vars, sv_vars, more_vars>>

LGNext ==
    \/ LoginPassword
    \/ ProcessResponse

\* ------------------------------------------------------------ card subtitle: state machine
Chars == {"3", "4", "7", "U+00E9", "U+20AC"}
RECURSIVE Strings(_)
Strings(n) == IF n = 0 THEN {<<>>} ELSE Strings(n - 1) \cup {Append(t, c) : t \in Strings(n - 1), c \in Chars}
CardBrands == {None, Some(EmptyString), Some(<<"V">>)}
CardNumbers == {None} \cup {Some(t) : t \in Strings(MaxNumberLen)}

SBNoCall == [op |-> "none", ok |-> TRUE, err |-> "None", val |-> EmptyString]

SBInit ==
    /\ sb_brand \in CardBrands
    /\ sb_number \in CardNumbers
    /\ sb_res = SBNoCall

SBIdle ==
    /\ sb_brand = None
    /\ sb_number = None
    /\ sb_res = SBNoCall

\* build_subtitle_card
CardSubtitle ==
    /\ sb_res.op = "none"
    /\ LET r == build_subtitle_card(sb_brand, sb_number)
       IN  sb_res' = [op |-> "build_subtitle_card", ok |-> r.ok, err |-> r.err,
                      val |-> IF r.ok THEN r.val ELSE EmptyString]
    /\ UNCHANGED <<sb_brand, sb_number>>
    /\ UNCHANGED sb_frame

SBNext ==
    \/ CardSubtitle

\* ------------------------------------------------------------ json client: state machine
Callers == 1..NumCallers

\* Client::new
JCInit ==
    /\ jc_pc = [c \in Callers |-> "idle"]
    /\ jc_cmd = [c \in Callers |-> None]
    /\ jc_step = [c \in Callers |-> 0]
    /\ jc_lock = None
    /\ jc_client = [running |-> None, seen |-> {}, interleaved |-> FALSE]
    /\ jc_resp = [c \in Callers |-> None]

JCIdle == JCInit

\* run_command, from the call to the await of the lock
RunCommandParse ==
    \E c \in Callers, input \in InputKinds :
        /\ jc_pc[c] = "idle"
        /\ LET cmd == parse_command(input)
           IN  IF cmd.ok
               THEN /\ jc_pc' = [jc_pc EXCEPT ![c] = "lock"]
                    /\ jc_cmd' = [jc_cmd EXCEPT ![c] = Some(cmd.val)]
                    /\ UNCHANGED jc_resp
               ELSE /\ jc_pc' = [jc_pc EXCEPT ![c] = "returned"]
                    /\ jc_resp' = [jc_resp EXCEPT ![c] = Some(Response_error(cmd.err))]
                    /\ UNCHANGED jc_cmd
        /\ UNCHANGED <<jc_step, jc_lock, jc_client>>
        /\ UNCHANGED jc_frame

\* self.0.lock().await
RunCommandLock ==
    \E c \in Callers :
        /\ jc_pc[c] = "lock"
        /\ IsSome(Mutex_lock(jc_lock, c))
        /\ jc_lock' = Unwrap(Mutex_lock(jc_lock, c))
        /\ jc_pc' = [jc_pc EXCEPT ![c] = "match"]
        /\ UNCHANGED <<jc_cmd, jc_step, jc_client, jc_resp>>
        /\ UNCHANGED jc_frame

\* the arm of the match: the command works on the client through the guard,
\* with awaits in between
RunCommandExecute ==
    \E c \in Callers :
        /\ jc_pc[c] = "match"
        /\ jc_step[c] < CmdSteps
        /\ jc_client' = Client_access(jc_client, c)
        /\ jc_step' = [jc_step EXCEPT ![c] = jc_step[c] + 1]
        /\ UNCHANGED <<jc_pc, jc_cmd, jc_lock, jc_resp>>
        /\ UNCHANGED jc_frame

\* into_string and the return: the guard is dropped at the end of the function
RunCommandReturn ==
    \E c \in Callers, result \in BOOLEAN :
        /\ jc_pc[c] = "match"
        /\ jc_step[c] = CmdSteps
        /\ jc_resp' = [jc_resp EXCEPT ![c] = Some(Response_of(result))]
        /\ jc_client' = Client_finish(jc_client)
        /\ jc_lock' = None
        /\ jc_pc' = [jc_pc EXCEPT ![c] = "returned"]
        /\ UNCHANGED <<jc_cmd, jc_step>>
        /\ UNCHANGED jc_frame

JCNext ==
    \/ RunCommandParse
    \/ RunCommandLock
    \/ RunCommandExecute
    \/ RunCommandReturn

\* ------------------------------------------------------------ secret edit: state machine
Editors == 1..NumEditors
SecretFields == {"key", "value", "note", "project_id"}

\* the command models editor e may pass: each field left out or set to e
EditModels(e) == [SecretFields -> {None, Some(e)}]

EDNoCall == [op |-> "none", ok |-> TRUE, by |-> 0, before |-> <<>>]

EDInit ==
    /\ ed_store \in {[key |-> 0, value |-> 0, note |-> 0, project_id |-> p] : p \in {None, Some(0)}}
    /\ ed_pc = [e \in Editors |-> "idle"]
    /\ ed_secret = [e \in Editors |-> None]
    /\ ed_old = [e \in Editors |-> None]
    /\ ed_res = EDNoCall

EDIdle ==
    /\ ed_store = [key |-> 0, value |-> 0, note |-> 0, project_id |-> None]
    /\ ed_pc = [e \in Editors |-> "idle"]
    /\ ed_secret = [e \in Editors |-> None]
    /\ ed_old = [e \in Editors |-> None]
    /\ ed_res = EDNoCall

\* edit: client.secrets().get(..).await?
EditGet ==
    \E e \in Editors, ok \in BOOLEAN : \E secret \in EditModels(e) :
        /\ ed_pc[e] = "idle"
        /\ ed_secret' = [ed_secret EXCEPT ![e] = Some(secret)]
        /\ ed_old' = [ed_old EXCEPT ![e] = IF ok THEN Some(ed_store) ELSE None]
        /\ ed_pc' = [ed_pc EXCEPT ![e] = IF ok THEN "update" ELSE "returned"]
        /\ ed_res' = IF ok THEN ed_res ELSE [op |-> "get", ok |-> FALSE, by |-> e, before |-> ed_store]
        /\ UNCHANGED ed_store
        /\ UNCHANGED ed_frame

\* edit: client.secrets().update(..).await?, the server replacing the
\* stored fields by those of the request
EditUpdate ==
    \E e \in Editors, ok \in BOOLEAN :
        /\ ed_pc[e] = "update"
        /\ ed_store' = IF ok THEN SecretPutRequest(Unwrap(ed_secret[e]), Unwrap(ed_old[e]))
                       ELSE ed_store
        /\ ed_res' = [op |-> "update", ok |-> ok, by |-> e, before |-> ed_store]
        /\ ed_pc' = [ed_pc EXCEPT ![e] = "returned"]
        /\ UNCHANGED <<ed_secret, ed_old>>
        /\ UNCHANGED ed_frame

EDNext ==
    \/ EditGet
    \/ EditUpdate

\* ------------------------------------------------------------ REST server: state machine
SecretIds == 1..NumSecrets
\* the organization id serve was started with
ServedOrganization == "organization"
SRNoCall == [route |-> "none", kind |-> "none", body |-> {}, error |-> ""]

SRInit ==
    /\ sr_store \in SUBSET SecretIds
    /\ sr_resp = SRNoCall
    /\ sr_log = <<>>

SRIdle ==
    /\ sr_store = {}
    /\ sr_resp = SRNoCall
    /\ sr_log = <<>>

\* the answer of a route is sent and the server waits for the next request
Answer(route, h) ==
    /\ Len(sr_log) < MaxRequests
    /\ sr_store' = h.store
    /\ sr_resp' = [route |-> route, kind |-> h.json.kind, body |-> h.json.body,
                   error |-> h.json.error]
    /\ sr_log' = Append(sr_log, h.json.kind)
    /\ UNCHANGED sr_frame

\* GET /
RouteRoot ==
    Answer("GET /", [json |-> [kind |-> "data", body |-> {}, error |-> ""], store |-> sr_store])

\* GET /secrets
RouteSecretsGet ==
    \E project_id \in {None} \cup {Some(i) : i \in SecretIds}, api_ok \in BOOLEAN :
        Answer("GET /secrets",
               secret_list_handler([project_id |-> project_id], sr_store, ServedOrganization, api_ok))

\* POST /secrets
RouteSecretsPost ==
    \E project_id \in {None} \cup {Some(i) : i \in SecretIds}, api_ok \in BOOLEAN :
        Answer("POST /secrets",
               secret_list_handler([project_id |-> project_id], sr_store, ServedOrganization, api_ok))

\* DELETE /secrets
RouteSecretsDelete ==
    \E ids \in SUBSET SecretIds, api_ok \in BOOLEAN :
        Answer("DELETE /secrets", secrets_delete_handler(ids, sr_store, api_ok))

\* GET /secret/{secret_id}
RouteSecretGet ==
    \E secret_id \in SecretIds, api_ok \in BOOLEAN :
        Answer("GET /secret/{secret_id}", secret_get_handler(secret_id, sr_store, api_ok))

SRNext ==
    \/ RouteRoot
    \/ RouteSecretsGet
    \/ RouteSecretsPost
    \/ RouteSecretsDelete
    \/ RouteSecretGet

MoreIdle == SBIdle /\ JCIdle /\ EDIdle /\ SRIdle
AuxIdle == KDIdle /\ SVIdle /\ LGIdle /\ MoreIdle

\* ------------------------------------------------------------ vault item: state machine
UserPrincipalKey == generate(50)
OrgKey(o) == generate(60 + o)
\* a 32-byte key without MAC half
LegacyKey == SymmetricCryptoKey(RawBlock(70), None)

Orgs == 1..NumOrgs
Scopes == {None} \cup {Some(o) : o \in Orgs}
KeyOf(scope) == IF scope = None THEN UserPrincipalKey ELSE OrgKey(Unwrap(scope))
PrincipalKeys == {KeyOf(s) : s \in Scopes} \cup {LegacyKey}

\* the key containers a caller may pass: each scope resolved or not
Containers == {[s \in Scopes |-> IF s \in R THEN Some(KeyOf(s)) ELSE None] : R \in SUBSET Scopes}

CipherNonces == {1}

Uri(u) == [uri |-> Some(u), uri_checksum |-> None]

\* the login of the repository's tests, with two URIs
SparseView ==
    [organization_id |-> None, key |-> None,
     name |-> <<"M", "y">>, notes |-> None, type |-> "Login",
     login |-> Some([username |-> Some(<<"u", "s", "r">>),
                     uris |-> Some(<<Uri(<<"a">>), Uri(<<"b">>)>>)]),
     identity |-> None, card |-> None, secure_note |-> None, local_data |-> None,
     attachments |-> None, fields |-> None, password_history |-> None]

\* an item with every member present
FullView(type) ==
    [organization_id |-> None, key |-> None,
     name |-> <<"N">>, notes |-> Some(<<"t">>), type |-> type,
     login |-> Some([username |-> Some(<<"u">>), uris |-> Some(<<Uri(<<"c">>)>>)]),
     identity |-> Some([first_name |-> Some(<<"J">>), last_name |-> Some(<<"D">>)]),
     card |-> Some([brand |-> Some(<<"A">>), number |-> Some(<<"3", "7", "1", "2", "3", "4">>)]),
     secure_note |-> Some([type |-> "Generic"]),
     local_data |-> Some([last_used_date |-> None]),
     attachments |-> Some(<< <<"f">> >>),
     fields |-> Some(<< <<"v">> >>),
     password_history |-> Some(<< <<"p">> >>)]

InitialViews == {SparseView, FullView("Card"), FullView("Identity"), FullView("SecureNote")}

CVNoCall == [op |-> "none"]

CVInit ==
    /\ view \in InitialViews
    /\ cipher = None
    /\ pristine = None
    /\ gen = 0
    /\ touched = 0
    /\ cv_res = CVNoCall

CVIdle ==
    /\ view = SparseView
    /\ cipher = None
    /\ pristine = None
    /\ gen = 0
    /\ touched = 0
    /\ cv_res = CVNoCall

GenerateCipherKey ==
    /\ UNCHANGED <<mk_vars, aux_vars>>
    /\ IsNone(cipher)
    /\ gen < MaxGen
    /\ \E key \in PrincipalKeys, nonce \in CipherNonces :
        LET r == generate_cipher_key(view, key, gen + 1, nonce) IN
        /\ view' = r.view
        /\ gen' = IF r.res.ok THEN gen + 1 ELSE gen
        /\ cv_res' = [op |-> "generate_cipher_key", ok |-> r.res.ok, err |-> r.res.err,
                      key |-> key, before |-> view]
    /\ UNCHANGED <<cipher, pristine, touched>>

MoveToOrganization ==
    /\ UNCHANGED <<mk_vars, aux_vars>>
    /\ IsNone(cipher)
    /\ \E enc \in Containers, org \in Orgs, nonce \in CipherNonces :
        LET r == move_to_organization(view, enc, org, nonce) IN
        /\ view' = r.view
        /\ cv_res' = [op |-> "move_to_organization", ok |-> r.res.ok, err |-> r.res.err,
                      enc |-> enc, org |-> org, before |-> view]
    /\ UNCHANGED <<cipher, pristine, touched, gen>>

\* the caller writes the public member organization_id itself
SetOrganizationId ==
    /\ UNCHANGED <<mk_vars, aux_vars>>
    /\ IsNone(cipher)
    /\ \E scope \in Scopes :
        /\ scope # view.organization_id
        /\ view' = [view EXCEPT !.organization_id = scope]
    /\ cv_res' = [op |-> "set_organization_id"]
    /\ UNCHANGED <<cipher, pristine, touched, gen>>

EncryptWithKey ==
    /\ UNCHANGED <<mk_vars, aux_vars>>
    /\ IsNone(cipher)
    /\ \E key \in PrincipalKeys, nonce \in CipherNonces :
        LET r == CipherView_encrypt_with_key(view, key, nonce) IN
        /\ cipher' = IF r.ok THEN Some(r.val) ELSE None
        /\ pristine' = cipher'
        /\ cv_res' = [op |-> "encrypt_with_key", ok |-> r.ok, err |-> r.err, key |-> key]
    /\ UNCHANGED <<view, gen, touched>>

\* the encrypted strings of a stored cipher that can be altered, by name
Target(c, t) ==
    CASE t = "key" -> c.key
      [] t = "name" -> Some(c.name)
      [] t = "notes" -> c.notes
      [] t = "login" -> IF IsSome(c.login) THEN Unwrap(c.login).username ELSE None
      [] t = "identity" -> IF IsSome(c.identity) THEN Unwrap(c.identity).first_name ELSE None
      [] t = "card" -> IF IsSome(c.card) THEN Unwrap(c.card).number ELSE None
      [] t = "attachments" -> IF IsSome(c.attachments) THEN Some(Unwrap(c.attachments)[1]) ELSE None
      [] t = "fields" -> IF IsSome(c.fields) THEN Some(Unwrap(c.fields)[1]) ELSE None
      [] t = "password_history" ->
            IF IsSome(c.password_history) THEN Some(Unwrap(c.password_history)[1]) ELSE None

Flipped(e) == [e EXCEPT !.data.flip = 1]

WithTarget(c, t, e) ==
    CASE t = "key" -> [c EXCEPT !.key = Some(e)]
      [] t = "name" -> [c EXCEPT !.name = e]
      [] t = "notes" -> [c EXCEPT !.notes = Some(e)]
      [] t = "login" -> [c EXCEPT !.login = Some([Unwrap(c.login) EXCEPT !.username = Some(e)])]
      [] t = "identity" ->
            [c EXCEPT !.identity = Some([Unwrap(c.identity) EXCEPT !.first_name = Some(e)])]
      [] t = "card" -> [c EXCEPT !.card = Some([Unwrap(c.card) EXCEPT !.number = Some(e)])]
      [] t = "attachments" ->
            [c EXCEPT !.attachments = Some([Unwrap(c.attachments) EXCEPT ![1] = e])]
      [] t = "fields" -> [c EXCEPT !.fields = Some([Unwrap(c.fields) EXCEPT ![1] = e])]
      [] t = "password_history" ->
            [c EXCEPT !.password_history = Some([Unwrap(c.password_history) EXCEPT ![1] = e])]

Targets == {"key", "name", "notes", "login", "identity", "card", "attachments", "fields",
            "password_history"}

\* the stored cipher is altered outside the program: a bit of one encrypted
\* member is inverted
FlipCipherBit ==
    /\ UNCHANGED <<mk_vars, aux_vars>>
    /\ IsSome(cipher)
    /\ touched < MaxTamper
    /\ \E t \in Targets :
        /\ IsSome(Target(Unwrap(cipher), t))
        /\ Unwrap(Target(Unwrap(cipher), t)).data.flip = 0
        /\ cipher' = Some(WithTarget(Unwrap(cipher), t, Flipped(Unwrap(Target(Unwrap(cipher), t)))))
    /\ touched' = touched + 1
    /\ cv_res' = [op |-> "alter"]
    /\ UNCHANGED <<view, pristine, gen>>

CipherUris(c) ==
    IF IsSome(c.login) /\ IsSome(Unwrap(c.login).uris) THEN Unwrap(Unwrap(c.login).uris) ELSE <<>>

WithUris(c, uris) == [c EXCEPT !.login = Some([Unwrap(c.login) EXCEPT !.uris = Some(uris)])]

\* the stored cipher is altered outside the program: the checksum of a URI
\* is removed, or replaced by the encrypted checksum of another URI
AlterChecksum ==
    /\ UNCHANGED <<mk_vars, aux_vars>>
    /\ IsSome(cipher)
    /\ touched < MaxTamper
    /\ LET uris == CipherUris(Unwrap(cipher)) IN
       \E i \in DOMAIN uris :
          \E cs \in {None} \cup {uris[j].uri_checksum : j \in DOMAIN uris \ {i}} :
            /\ IsSome(uris[i].uri_checksum)
            /\ cs # uris[i].uri_checksum
            /\ cipher' = Some(WithUris(Unwrap(cipher), [uris EXCEPT ![i].uri_checksum = cs]))
    /\ touched' = touched + 1
    /\ cv_res' = [op |-> "alter"]
    /\ UNCHANGED <<view, pristine, gen>>

\* the stored cipher is altered outside the program: its key member is
\* replaced by another of its encrypted members, one whose plaintext is a
\* text and not key material (the texts of one or two characters are left
\* out: Len would count them as one or two 32-byte blocks)
ReplaceKeyMember ==
    /\ UNCHANGED <<mk_vars, aux_vars>>
    /\ IsSome(cipher)
    /\ touched < MaxTamper
    /\ \E t \in Targets \ {"key"} :
        /\ IsSome(Target(Unwrap(cipher), t))
        /\ Len(Unwrap(Target(Unwrap(cipher), t)).data.pt) > 2
        /\ cipher' = Some([Unwrap(cipher) EXCEPT !.key = Target(Unwrap(cipher), t)])
    /\ touched' = touched + 1
    /\ cv_res' = [op |-> "alter"]
    /\ UNCHANGED <<view, pristine, gen>>

DecryptWithKey ==
    /\ UNCHANGED <<mk_vars, aux_vars>>
    /\ IsSome(cipher)
    /\ \E key \in PrincipalKeys :
        LET r == Cipher_decrypt_with_key(Unwrap(cipher), key) IN
        cv_res' = [op |-> "decrypt_with_key", ok |-> r.ok, err |-> r.err, key |-> key,
                   out |-> r.val]
    /\ UNCHANGED <<view, cipher, pristine, gen, touched>>

DecryptListWithKey ==
    /\ UNCHANGED <<mk_vars, aux_vars>>
    /\ IsSome(cipher)
    /\ \E key \in PrincipalKeys :
        LET r == Cipher_decrypt_list_with_key(Unwrap(cipher), key) IN
        cv_res' = [op |-> "decrypt_list_with_key", ok |-> r.ok, err |-> r.err, key |-> key,
                   out |-> r.val]
    /\ UNCHANGED <<view, cipher, pristine, gen, touched>>

CVNext ==
    \/ GenerateCipherKey
    \/ MoveToOrganization
    \/ SetOrganizationId
    \/ EncryptWithKey
    \/ FlipCipherBit
    \/ AlterChecksum
    \/ ReplaceKeyMember
    \/ DecryptWithKey
    \/ DecryptListWithKey

Init == MKInit /\ CVIdle /\ AuxIdle
Next == MKNext
Spec == Init /\ [][Next]_vars

InitCipher == CVInit /\ MKIdle /\ AuxIdle
NextCipher == CVNext
SpecCipher == InitCipher /\ [][NextCipher]_vars

InitKdf == KDInit /\ MKIdle /\ CVIdle /\ SVIdle /\ LGIdle /\ MoreIdle
NextKdf == KDNext
SpecKdf == InitKdf /\ [][NextKdf]_vars

InitSensitive == SVInit /\ MKIdle /\ CVIdle /\ KDIdle /\ LGIdle /\ MoreIdle
NextSensitive == SVNext
SpecSensitive == InitSensitive /\ [][NextSensitive]_vars

NextDebug == SVDebugNext
SpecDebug == InitSensitive /\ [][NextDebug]_vars

InitLogin == LGInit /\ MKIdle /\ CVIdle /\ KDIdle /\ SVIdle /\ MoreIdle
NextLogin == LGNext
SpecLogin == InitLogin /\ [][NextLogin]_vars

InitSubtitle == SBInit /\ MKIdle /\ CVIdle /\ KDIdle /\ SVIdle /\ LGIdle /\ JCIdle /\ EDIdle /\ SRIdle
NextSubtitle == SBNext
SpecSubtitle == InitSubtitle /\ [][NextSubtitle]_vars

InitJson == JCInit /\ MKIdle /\ CVIdle /\ KDIdle /\ SVIdle /\ LGIdle /\ SBIdle /\ EDIdle /\ SRIdle
NextJson == JCNext
SpecJson == InitJson /\ [][NextJson]_vars

InitEdit == EDInit /\ MKIdle /\ CVIdle /\ KDIdle /\ SVIdle /\ LGIdle /\ SBIdle /\ JCIdle /\ SRIdle
NextEdit == EDNext
SpecEdit == InitEdit /\ [][NextEdit]_vars

InitServe == SRInit /\ MKIdle /\ CVIdle /\ KDIdle /\ SVIdle /\ LGIdle /\ SBIdle /\ JCIdle /\ EDIdle
NextServe == SRNext
SpecServe == InitServe /\ [][NextServe]_vars

\* ------------------------------------------------------------ master key hierarchy: properties
Untouched == IsSome(produced) /\ protected = Some(Unwrap(produced).enc)
Altered == IsSome(produced) /\ IsSome(protected) /\ protected # Some(Unwrap(produced).enc)

\* C1: unwrapping, with the same master key, exactly what encrypt_user_key
\* returned succeeds and gives back both halves of the user key, for the
\* 32-byte and the 64-byte form alike.
C1_UserKeyRoundTrip ==
    (mk_res.op = "decrypt_user_key" /\ Untouched /\ Unwrap(produced).by = master_key)
        => /\ mk_res.ok
           /\ mk_res.val.key = Unwrap(user_key).key
           /\ mk_res.val.mac_key = Unwrap(user_key).mac_key

C1_Witness ==
    /\ mk_res.op = "decrypt_user_key"
    /\ Untouched
    /\ Unwrap(produced).by = master_key
    /\ Unwrap(user_key) \in UserKeys
    /\ IsNone(Unwrap(user_key).mac_key)
    /\ IsNone(master_key.mac_key)

\* C2: make_user_key returns a user key with both halves together with the
\* envelope of that key's 64 bytes under the stretched master key: unwrapping
\* the envelope with the master key returns that key, and neither the
\* unstretched master key nor another master key opens it.
C2_MakeUserKeyWrapsItsKey ==
    (mk_res.op = "make_user_key" /\ mk_res.ok) =>
        LET uk == mk_res.val.user_key
            w == mk_res.val.protected
            d == decrypt_user_key(master_key, w)
        IN  /\ IsSome(uk.mac_key)
            /\ d.ok /\ d.val = uk
            /\ EncString_decrypt_with_key(w, stretch_kdf_key(master_key).val).val = to_vec(uk)
            /\ ~EncString_decrypt_with_key(w, master_key).ok
            /\ \A k \in MasterKeys : k.key # master_key.key => ~decrypt_user_key(k, w).ok

C2_Witness == mk_res.op = "make_user_key" /\ mk_res.ok /\ IsSome(protected)

\* C3: an envelope that differs from the one encrypt_user_key produced in a
\* bit of the ciphertext or of the MAC is refused with InvalidMac and yields
\* no key; in every call the MAC is verified first and the ciphertext is
\* decrypted only after the MAC matched.
C3_TamperedIsInvalidMac ==
    mk_res.op = "decrypt_user_key" =>
        /\ Altered => (~mk_res.ok /\ mk_res.err = "InvalidMac" /\ mk_res.val = None
                        /\ mk_res.steps = <<"hmac_verify">>)
        /\ \A i \in DOMAIN mk_res.steps :
              mk_res.steps[i] = "aes_decrypt" => (i > 1 /\ mk_res.steps[i - 1] = "hmac_verify")
        /\ mk_res.ok => mk_res.steps = <<"hmac_verify", "aes_decrypt">>

C3_Witness ==
    /\ mk_res.op = "decrypt_user_key"
    /\ Altered
    /\ Unwrap(produced).by = master_key
    /\ Unwrap(protected).data.flip # 0
    /\ Unwrap(protected).mac.flip = 0

\* ------------------------------------------------------------ vault item: properties
\* e was encrypted and authenticated with the two halves of k
UnderKey(e, k) == e.data.ek = k.key /\ k.mac_key = Some(e.mac.mk)

RECURSIVE Flatten(_)
Flatten(seqs) == IF seqs = <<>> THEN <<>> ELSE Head(seqs) \o Flatten(Tail(seqs))

OptVecOf(opt) == IF IsSome(opt) THEN Unwrap(opt) ELSE <<>>

\* every encrypted string of a cipher except its key member
EncStringsOf(c) ==
    <<c.name>> \o c.notes
    \o (IF IsSome(c.login)
        THEN Unwrap(c.login).username
             \o Flatten([i \in DOMAIN CipherUris(c) |->
                            CipherUris(c)[i].uri \o CipherUris(c)[i].uri_checksum])
        ELSE <<>>)
    \o (IF IsSome(c.identity)
        THEN Unwrap(c.identity).first_name \o Unwrap(c.identity).last_name ELSE <<>>)
    \o (IF IsSome(c.card) THEN Unwrap(c.card).brand \o Unwrap(c.card).number ELSE <<>>)
    \o OptVecOf(c.attachments) \o OptVecOf(c.fields) \o OptVecOf(c.password_history)

AllFieldsUnder(c, k) == \A i \in DOMAIN EncStringsOf(c) : UnderKey(EncStringsOf(c)[i], k)
NoFieldUnder(c, k) == \A i \in DOMAIN EncStringsOf(c) : ~UnderKey(EncStringsOf(c)[i], k)

\* the members of a view other than its owner and its key
FieldsOf(v) == [v EXCEPT !.organization_id = None, !.key = None]

ViewUris(v) ==
    IF IsSome(v.login) /\ IsSome(Unwrap(v.login).uris) THEN Unwrap(Unwrap(v.login).uris) ELSE <<>>

\* C4: encrypt_with_key(K) hands the key member through unchanged; with an
\* item key every member is encrypted under the unwrapped item key and none
\* under K, without one every member is encrypted under K; decrypt_with_key(K)
\* of the result succeeds, restores the name and keeps the key member.
\* decrypt_with_key selects its key the same way: the name comes back exactly
\* when its ciphertext is intact and under the selected key.
C4_ItemKeyOrPrincipalKey ==
    /\ (cv_res.op = "encrypt_with_key" /\ cv_res.ok) =>
        LET c == Unwrap(cipher)
            ik == Cipher_get_cipher_key(cv_res.key, view.key)
            d == Cipher_decrypt_with_key(c, cv_res.key)
        IN  /\ c.key = view.key
            /\ ik.ok
            /\ IsSome(view.key) =>
                  (AllFieldsUnder(c, Unwrap(ik.val)) /\ NoFieldUnder(c, cv_res.key))
            /\ IsNone(view.key) => AllFieldsUnder(c, cv_res.key)
            /\ d.ok
            /\ d.val.name = view.name
            /\ d.val.key = view.key
    /\ (cv_res.op = "decrypt_with_key" /\ cv_res.ok) =>
        LET c == Unwrap(cipher)
            ik == Cipher_get_cipher_key(cv_res.key, c.key)
            sel == IF IsSome(c.key) THEN Unwrap(ik.val) ELSE cv_res.key
        IN  /\ cv_res.out.key = c.key
            /\ cv_res.out.name =
                  IF UnderKey(c.name, sel) /\ c.name.data.flip = 0 THEN view.name
                  ELSE EmptyString

C4_Witness ==
    /\ cv_res.op = "decrypt_with_key" /\ cv_res.ok
    /\ IsSome(view.key)
    /\ IsSome(cv_res.out.key)
    /\ cv_res.out.name = view.name
    /\ AllFieldsUnder(Unwrap(cipher), generate(1))

\* C5: a successful move_to_organization of an item with an item key leaves
\* the same item key, now wrapped under the key of the organization, sets
\* organization_id, and the item encrypted and decrypted under the key of
\* the organization has the members it had under the previous owner's key.
C5_MoveKeepsItemKeyAndContent ==
    (cv_res.op = "move_to_organization" /\ cv_res.ok /\ IsSome(cv_res.before.key)) =>
        LET b == cv_res.before
            old_key == get_key(cv_res.enc, b.organization_id)
            new_key == get_key(cv_res.enc, Some(cv_res.org))
            ik_old == Cipher_get_cipher_key(Unwrap(old_key), b.key)
            ik_new == Cipher_get_cipher_key(Unwrap(new_key), view.key)
            e_old == CipherView_encrypt_with_key(b, Unwrap(old_key), 1)
            e_new == CipherView_encrypt_with_key(view, Unwrap(new_key), 1)
        IN  /\ IsSome(old_key) /\ IsSome(new_key)
            /\ ik_old.ok /\ ik_new.ok /\ ik_new.val = ik_old.val
            /\ UnderKey(Unwrap(view.key), Unwrap(new_key))
            /\ view.organization_id = Some(cv_res.org)
            /\ FieldsOf(view) = FieldsOf(b)
            /\ e_old.ok /\ e_new.ok
            /\ LET d_old == Cipher_decrypt_with_key(e_old.val, Unwrap(old_key))
                   d_new == Cipher_decrypt_with_key(e_new.val, Unwrap(new_key))
               IN  /\ d_old.ok /\ d_new.ok
                   /\ FieldsOf(d_new.val) = FieldsOf(d_old.val)
                   /\ FieldsOf(d_new.val) = FieldsOf(generate_checksums(b))

C5_Witness ==
    /\ cv_res.op = "move_to_organization" /\ cv_res.ok
    /\ IsSome(cv_res.before.key)
    /\ cv_res.before.organization_id = Some(1)
    /\ cv_res.org = 2
    /\ view.key # cv_res.before.key

Unresolved(r) ==
    \/ IsNone(get_key(r.enc, r.before.organization_id))
    \/ IsNone(get_key(r.enc, Some(r.org)))

\* C6 as claimed: with the key of the current owner or of the target
\* organization unresolved, move_to_organization fails with VaultLocked and
\* completes no transfer, whether or not the item has an item key.
C6_LockedForEveryItem ==
    (cv_res.op = "move_to_organization" /\ Unresolved(cv_res)) =>
        (~cv_res.ok /\ cv_res.err = "VaultLocked" /\ view = cv_res.before)

\* C6 as amended: for an item with an item key, an unresolved key of the
\* current owner or of the target organization makes move_to_organization
\* fail with VaultLocked and leave the item as it was; for an item without an
\* item key no key is resolved and the transfer completes.
C6_LockedWhenItemKey ==
    cv_res.op = "move_to_organization" =>
        /\ (IsSome(cv_res.before.key) /\ Unresolved(cv_res)) =>
              (~cv_res.ok /\ cv_res.err = "VaultLocked" /\ view = cv_res.before)
        /\ IsNone(cv_res.before.key) =>
              (cv_res.ok /\ view = [cv_res.before EXCEPT !.organization_id = Some(cv_res.org)])

C6_Witness ==
    /\ cv_res.op = "move_to_organization"
    /\ IsSome(cv_res.before.key)
    /\ IsSome(get_key(cv_res.enc, cv_res.before.organization_id))
    /\ IsNone(get_key(cv_res.enc, Some(cv_res.org)))
    /\ ~cv_res.ok

\* C7: a view whose item key is not wrapped under the key passed to
\* encrypt_with_key is refused: the call fails and no cipher is made.
C7_ForeignKeyRefused ==
    (cv_res.op = "encrypt_with_key" /\ IsSome(view.key)
        /\ ~UnderKey(Unwrap(view.key), cv_res.key)) =>
        (~cv_res.ok /\ cipher = None)

C7_Witness ==
    /\ cv_res.op = "encrypt_with_key"
    /\ IsSome(view.key)
    /\ UnderKey(Unwrap(view.key), UserPrincipalKey)
    /\ view.organization_id = Some(1)
    /\ cv_res.key = OrgKey(1)
    /\ ~cv_res.ok

MemberNames == {"name", "notes", "login", "identity", "card", "secure_note", "local_data",
                "attachments", "fields", "password_history"}
Default(f) == IF f = "name" THEN EmptyString ELSE None

\* member f of the stored cipher has a bit inverted
MemberFlipped(f) ==
    /\ f \in Targets
    /\ Target(Unwrap(cipher), f) # Target(Unwrap(pristine), f)

SubtitleMember(c) ==
    CASE c.type = "Login" -> "login"
      [] c.type = "Card" -> "card"
      [] c.type = "Identity" -> "identity"
      [] c.type = "SecureNote" -> "secure_note"

\* C8: whenever the item key (if any) unwraps, decrypt_with_key returns Ok; a
\* member with an inverted bit comes back as its default, and every member
\* left as stored comes back as it does from the unaltered cipher.  The same
\* for name and sub_title of the list view.
C8_FieldsFailSoft ==
    /\ (cv_res.op = "decrypt_with_key" /\ Cipher_get_cipher_key(cv_res.key, Unwrap(cipher).key).ok
            /\ Unwrap(cipher).key = Unwrap(pristine).key) =>
        LET ref == Cipher_decrypt_with_key(Unwrap(pristine), cv_res.key)
        IN  /\ cv_res.ok
            /\ \A f \in MemberNames :
                /\ MemberFlipped(f) => cv_res.out[f] = Default(f)
                /\ Unwrap(cipher)[f] = Unwrap(pristine)[f] => cv_res.out[f] = ref.val[f]
    /\ (cv_res.op = "decrypt_list_with_key"
            /\ Cipher_get_cipher_key(cv_res.key, Unwrap(cipher).key).ok
            /\ Unwrap(cipher).key = Unwrap(pristine).key) =>
        LET ref == Cipher_decrypt_list_with_key(Unwrap(pristine), cv_res.key)
            m == SubtitleMember(Unwrap(cipher))
        IN  /\ cv_res.ok
            /\ MemberFlipped("name") => cv_res.out.name = EmptyString
            /\ Unwrap(cipher).name = Unwrap(pristine).name => cv_res.out.name = ref.val.name
            /\ MemberFlipped(m) => cv_res.out.sub_title = EmptyString
            /\ Unwrap(cipher)[m] = Unwrap(pristine)[m] => cv_res.out.sub_title = ref.val.sub_title

C8_Witness ==
    /\ cv_res.op = "decrypt_with_key" /\ cv_res.ok
    /\ MemberFlipped("notes")
    /\ cv_res.out.notes = None
    /\ cv_res.out.name = view.name
    /\ cv_res.out.card = view.card
    /\ IsSome(view.notes)

ChecksumOk(u) == IsSome(u.uri_checksum) /\ Unwrap(u.uri_checksum) = Sha256(Unwrap(u.uri))

\* C9: encrypt_with_key stores a checksum with every URI exactly when the
\* item has an item key; decrypt_with_key returns Ok and, when the item has
\* an item key, the URIs with a valid checksum and only those, and when it
\* has none, every URI.
C9_ChecksumsOnlyWithItemKey ==
    /\ (cv_res.op = "encrypt_with_key" /\ cv_res.ok) =>
        LET us == CipherUris(Unwrap(cipher))
            k == IF IsSome(view.key) THEN Unwrap(Cipher_get_cipher_key(cv_res.key, view.key).val)
                 ELSE cv_res.key
        IN  /\ Len(us) = Len(ViewUris(view))
            /\ \A i \in DOMAIN us :
                IF IsSome(view.key)
                THEN /\ IsSome(us[i].uri_checksum)
                     /\ String_decrypt_with_key(Unwrap(us[i].uri_checksum), k)
                            = Ok(Sha256(Unwrap(ViewUris(view)[i].uri)))
                ELSE us[i].uri_checksum = None
    /\ (cv_res.op = "decrypt_with_key" /\ cv_res.ok /\ IsSome(cv_res.out.login)) =>
        LET c == Unwrap(cipher)
            k == IF IsSome(c.key) THEN Unwrap(Cipher_get_cipher_key(cv_res.key, c.key).val)
                 ELSE cv_res.key
            stored == OptVecOf(Unwrap(Login_decrypt_with_key(c.login, k).val).uris)
            out == ViewUris(cv_res.out)
        IN  IF IsSome(c.key)
            THEN out = SelectSeq(stored, ChecksumOk)
            ELSE out = stored /\ Len(out) = Len(CipherUris(c))

C9_Witness ==
    /\ cv_res.op = "decrypt_with_key" /\ cv_res.ok
    /\ IsSome(Unwrap(cipher).key)
    /\ touched > 0
    /\ IsSome(cv_res.out.login)
    /\ Len(ViewUris(cv_res.out)) = 1
    /\ Len(ViewUris(view)) = 2

\* C10: generate_cipher_key(K) on an item without item key stores a freshly
\* generated key wrapped under K, and an encrypt_with_key(K) that follows it
\* encrypts every member under the new item key, none under K, and stores the
\* URI checksums.
C10_State ==
    (cv_res.op = "generate_cipher_key" /\ cv_res.ok /\ IsNone(cv_res.before.key)) =>
        /\ IsSome(view.key)
        /\ UnderKey(Unwrap(view.key), cv_res.key)
        /\ Cipher_get_cipher_key(cv_res.key, view.key) = Ok(Some(generate(gen)))
        /\ generate(gen) \notin PrincipalKeys
        /\ FieldsOf(view) = FieldsOf(cv_res.before)

C10_Step ==
    (/\ cv_res.op = "generate_cipher_key" /\ cv_res.ok /\ IsNone(cv_res.before.key)
     /\ cv_res'.op = "encrypt_with_key" /\ cv_res'.key = cv_res.key) =>
        /\ cv_res'.ok
        /\ IsSome(cipher')
        /\ Unwrap(cipher').key = view.key
        /\ AllFieldsUnder(Unwrap(cipher'), generate(gen))
        /\ NoFieldUnder(Unwrap(cipher'), cv_res.key)
        /\ \A i \in DOMAIN CipherUris(Unwrap(cipher')) :
              IsSome(CipherUris(Unwrap(cipher'))[i].uri_checksum)

C10_NewItemKeyUsedNext == [](C10_State) /\ [][C10_Step]_vars

C10_Witness ==
    /\ cv_res.op = "encrypt_with_key" /\ cv_res.ok
    /\ gen = 1
    /\ IsSome(view.key)
    /\ UnderKey(Unwrap(view.key), cv_res.key)
    /\ AllFieldsUnder(Unwrap(cipher), generate(1))

\* the MAC of e is not the one key k computes
BadMac(e, k) ==
    IsNone(k.mac_key) \/ hmac_sha256(Unwrap(k.mac_key), e.iv, e.data) # e.mac

\* the key member cannot be unwrapped with k: its MAC is bad, or what it
\* wraps is neither 32 nor 64 bytes
CannotUnwrap(key_member, k) ==
    /\ IsSome(key_member)
    /\ BadMac(Unwrap(key_member), k) \/ Len(Unwrap(key_member).data.pt) \notin {1, 2}

\* C21: when the wrapped item key cannot be unwrapped with the key passed
\* (bad MAC, or the bytes are not of a key length), decrypt_with_key to a
\* CipherView and to a CipherListView and encrypt_with_key fail and return
\* no entity: no member is defaulted and the key passed is not used in
\* place of the item key.
C21_UnwrapFailureAborts ==
    /\ (cv_res.op \in {"decrypt_with_key", "decrypt_list_with_key"}
            /\ CannotUnwrap(Unwrap(cipher).key, cv_res.key)) =>
        (~cv_res.ok /\ cv_res.out = None /\ cv_res.err \in {"InvalidMac", "InvalidKeyLen"})
    /\ (cv_res.op = "encrypt_with_key" /\ CannotUnwrap(view.key, cv_res.key)) =>
        (~cv_res.ok /\ cipher = None /\ cv_res.err \in {"InvalidMac", "InvalidKeyLen"})

C21_Witness ==
    /\ cv_res.op = "decrypt_list_with_key"
    /\ ~cv_res.ok
    /\ cv_res.err = "InvalidKeyLen"
    /\ ~BadMac(Unwrap(Unwrap(cipher).key), cv_res.key)

\* C24: after any number of successful generate_cipher_key calls with the
\* same principal key K on an entity, the key member can be unwrapped with K,
\* so that encrypt_with_key under K succeeds and decrypt_with_key under K
\* restores the members.
C24_GeneratedKeyUnwraps ==
    (cv_res.op = "generate_cipher_key" /\ cv_res.ok) =>
        LET enc == CipherView_encrypt_with_key(view, cv_res.key, 1)
        IN  /\ Cipher_get_cipher_key(cv_res.key, view.key).ok
            /\ enc.ok
            /\ Cipher_decrypt_with_key(enc.val, cv_res.key).ok

\* C25: when move_to_organization returns an error (a key of the container
\* is unresolved, the item key cannot be unwrapped with the key of the
\* current owner, or wrapping it again fails) the entity is as it was before
\* the call: its key and its organization_id, and every other member.
C25_FailedMoveChangesNothing ==
    (cv_res.op = "move_to_organization" /\ ~cv_res.ok) => view = cv_res.before

C25_Witness ==
    /\ cv_res.op = "move_to_organization" /\ ~cv_res.ok
    /\ cv_res.err = "InvalidMac"
    /\ IsSome(view.key)
    /\ view.organization_id # Some(cv_res.org)

\* ------------------------------------------------------------ key derivation: properties
HashOf(p) == Unwrap(kd_hash[p]).hash
BothHashed ==
    /\ IsSome(kd_hash[ServerAuthorization])
    /\ IsSome(kd_hash[LocalAuthorization])
    /\ Unwrap(kd_hash[ServerAuthorization]).password = Unwrap(kd_hash[LocalAuthorization]).password

\* C11: the hashes derive_master_key_hash returns for ServerAuthorization and
\* for LocalAuthorization, from the same master key and password, differ.
C11_PurposesGiveDifferentHashes ==
    BothHashed => HashOf(ServerAuthorization) # HashOf(LocalAuthorization)

C11_Witness ==
    /\ BothHashed
    /\ kd_res.op = "derive_master_key_hash"
    /\ kdf.tag = "Argon2id"

\* the last hash derived was derived this way: PBKDF2-HMAC-SHA256 keyed with
\* the raw bytes of the master key, salted with the password, 32 bytes out,
\* as padded standard base64 (44 characters, one of them padding)
HashShape(h, password) ==
    /\ h.b64.len = 32
    /\ \A u \in h.b64.xor : u.k = Unwrap(kd_key).key
    /\ Hmac(Unwrap(kd_key).key, <<"salt", password, 1>>) \in h.b64.xor
    /\ h.padded
    /\ h.len = 44
    /\ h.pad = 1

Iterations(h) == Cardinality(h.b64.xor)

\* C12 as claimed: derive_master_key_hash is PBKDF2-HMAC-SHA256 keyed with the
\* raw master key, with exactly 1 iteration for either purpose, 32 bytes out,
\* returned as padded standard base64.
C12_OneIterationEitherPurpose ==
    kd_res.op = "derive_master_key_hash" =>
        /\ kd_res.ok
        /\ HashShape(HashOf(kd_res.purpose), Unwrap(kd_hash[kd_res.purpose]).password)
        /\ Iterations(HashOf(kd_res.purpose)) = 1

\* C12 as amended: the same, with as many iterations as the discriminant of
\* the purpose: 1 for ServerAuthorization, 2 for LocalAuthorization.
C12_IterationsArePurpose ==
    kd_res.op = "derive_master_key_hash" =>
        /\ kd_res.ok
        /\ HashShape(HashOf(kd_res.purpose), Unwrap(kd_hash[kd_res.purpose]).password)
        /\ Iterations(HashOf(kd_res.purpose)) =
              (IF kd_res.purpose = ServerAuthorization THEN 1 ELSE 2)

C12_Witness ==
    /\ kd_res.op = "derive_master_key_hash" /\ kd_res.ok
    /\ kd_res.purpose = LocalAuthorization
    /\ Iterations(HashOf(LocalAuthorization)) = 2

\* what an observer without the keys can compute of a block: a block it
\* holds, or the keyless hash of a block it can compute
RECURSIVE Makeable(_, _)
Makeable(u, atoms) ==
    \/ u \in atoms
    \/ /\ u.k = PublicKey
       /\ u.m[1] = "prev"
       /\ Makeable(u.m[2], atoms)

SymDiff(A, B) == (A \ B) \cup (B \ A)

\* an observer holding digest d (and nothing secret) can compute digest t
Derivable(t, d) ==
    LET atoms == IF Cardinality(d.xor) = 1 THEN d.xor ELSE {}
    IN  \/ \A u \in t.xor : Makeable(u, atoms)
        \/ \A u \in SymDiff(t.xor, d.xor) : Makeable(u, atoms)

\* the values the computation of digest d passes through before its last round
PartialDigests(d) ==
    {x \in SUBSET d.xor : x # {} /\ x # d.xor /\ \A u \in x : u.m[1] = "prev" => u.m[2] \in x}

Unrelated(a, b) ==
    /\ a # b
    /\ ~Derivable(a, b)
    /\ ~Derivable(b, a)

\* C13 as claimed: of the two hashes of one master key and password, neither
\* can be computed from the other without the master key, and neither is a
\* value the computation of the other passes through.
C13_NeitherIsIntermediate ==
    BothHashed =>
        /\ Unrelated(HashOf(ServerAuthorization).b64, HashOf(LocalAuthorization).b64)
        /\ HashOf(ServerAuthorization).b64.xor \notin PartialDigests(HashOf(LocalAuthorization).b64)
        /\ HashOf(LocalAuthorization).b64.xor \notin PartialDigests(HashOf(ServerAuthorization).b64)

\* C13 as amended: of the two hashes of one master key and password, neither
\* can be computed from the other without the master key; the digest of
\* ServerAuthorization is the value of the first round of LocalAuthorization,
\* whose second round is keyed with the master key.
C13_NotComputableWithoutKey ==
    BothHashed =>
        /\ Unrelated(HashOf(ServerAuthorization).b64, HashOf(LocalAuthorization).b64)
        /\ PartialDigests(HashOf(LocalAuthorization).b64) = {HashOf(ServerAuthorization).b64.xor}
        /\ \A u \in HashOf(LocalAuthorization).b64.xor : u.k = Unwrap(kd_key).key

C13_Witness ==
    /\ BothHashed
    /\ kd_res.op = "derive_master_key_hash"
    /\ kd_res.purpose = ServerAuthorization
    /\ kdf = Kdf_default

\* C14: a key returned by MasterKey::derive, for every password, salt and
\* Kdf, has an encryption half of 32 bytes (one block) and no MAC half.
C14_DerivedKeyHasNoMacHalf ==
    /\ (kd_res.op = "derive" /\ kd_res.ok) => IsSome(kd_key)
    /\ IsSome(kd_key) =>
        /\ IsNone(Unwrap(kd_key).mac_key)
        /\ Len(to_vec(Unwrap(kd_key))) = 1
        /\ to_vec(Unwrap(kd_key))[1] = Unwrap(kd_key).key

C14_Witness ==
    /\ kd_res.op = "derive" /\ kd_res.ok
    /\ kdf.tag = "Argon2id"
    /\ IsNone(Unwrap(kd_key).mac_key)

\* C19: Kdf::default() is PBKDF2 with 600,000 iterations, the Argon2id
\* defaults are 3 iterations, memory 64 and parallelism 4, and every parameter
\* of every Kdf constructed is a strictly positive integer.
C19_KdfDefaultsAndPositive ==
    /\ kd_res.op = "kdf_default" => kdf = [tag |-> "PBKDF2", params |-> <<600000>>]
    /\ kd_res.op = "kdf_argon2_defaults" => kdf = [tag |-> "Argon2id", params |-> <<3, 64, 4>>]
    /\ \A i \in DOMAIN kdf.params : kdf.params[i] > 0
    /\ Len(kdf.params) = (IF kdf.tag = "PBKDF2" THEN 1 ELSE 3)

C19_Witness ==
    /\ kd_res.op = "kdf_default"
    /\ kdf.params = <<600000>>

C16_WipedBeforeRelease ==
    \A b \in DOMAIN heap : heap[b].live \/ heap[b].wiped

\* the joined subtitle of a card or of an identity was just built
JoinedSubtitleBuilt ==
    \/ sv_res.op = "build_subtitle_card" /\ \E i \in DOMAIN sv_res.out : sv_res.out[i] = ","
    \/ sv_res.op = "build_subtitle_identity" /\ \E i \in DOMAIN sv_res.out : sv_res.out[i] = " "

\* C17: encode_base64, decode_base64 and the subtitle builders allocate the
\* destination at its final capacity before the first write: no buffer is
\* ever reallocated, with or without data in it, and what an operation
\* returns fits the capacity its buffer was allocated with.
C17_DestinationNeverGrows ==
    /\ \A b \in DOMAIN heap :
          /\ heap[b].grown = 0 /\ ~heap[b].stale
          /\ heap[b].live => heap[b].len <= heap[b].cap
    /\ \A i \in DOMAIN sens : heap[sens[i].buf].live
    /\ sv_res.op = "encode_base64" => sv_res.ok

C17_Witness ==
    /\ JoinedSubtitleBuilt
    /\ \E i \in DOMAIN sens :
          /\ heap[sens[i].buf].live
          /\ heap[sens[i].buf].len = heap[sens[i].buf].cap
          /\ heap[sens[i].buf].len = Len(sv_res.out)
          /\ heap[sens[i].buf].len > 4

\* the bytes a container of the model may hold
ContentBytes ==
    UNION {{c[i] : i \in DOMAIN c} : c \in VecContents \cup StringContents}

\* C18: the Debug rendering of a Sensitive value shows the type name and the
\* marker ******** and none of the contents, and depends on the type only:
\* two values of one type render the same.
C18_DebugShowsTypeOnly ==
    /\ \A k \in DOMAIN rendered :
          /\ \E i \in DOMAIN rendered[k].out : rendered[k].out[i] = "********"
          /\ \E i \in DOMAIN rendered[k].out :
                rendered[k].out[i] = (IF rendered[k].type = "String"
                                      THEN "alloc::string::String"
                                      ELSE "alloc::vec::Vec<u8>")
          /\ \A i \in DOMAIN rendered[k].out : rendered[k].out[i] \notin ContentBytes
    /\ \A k, l \in DOMAIN rendered :
          rendered[k].type = rendered[l].type => rendered[k].out = rendered[l].out

C18_Witness ==
    /\ sv_res.op = "debug"
    /\ Len(rendered) = 2
    /\ rendered[1].type = rendered[2].type
    /\ rendered[1].value # rendered[2].value

\* ------------------------------------------------------------ login: properties
\* C20: in every PasswordLoginResponse built by process_response, two_factor
\* is present only when authentication failed because a second factor is
\* required, captcha is present only when authentication failed because a
\* captcha challenge is required, and when authenticated is true both are
\* absent.
C20_FactorsOnlyWhenRequired ==
    (lg_res.ok /\ IsSome(lg_res.val) /\ IsSome(lg_response)) =>
        LET r == Unwrap(lg_res.val)
            cause == Unwrap(lg_response).tag
        IN  /\ IsSome(r.two_factor) => (~r.authenticated /\ cause = "TwoFactorRequired")
            /\ IsSome(r.captcha) => (~r.authenticated /\ cause = "CaptchaRequired")
            /\ r.authenticated => (IsNone(r.two_factor) /\ IsNone(r.captcha))

\* ------------------------------------------------------------ card subtitle: properties
\* C22: build_subtitle_card returns normally, without a panic, for every
\* optional brand and every optional card number of any length and content:
\* past the length filter the slice of the first two bytes and the slice of
\* the last four or five are in range, and the subtraction never underflows.
C22_NeverPanics ==
    sb_res.op = "build_subtitle_card" => sb_res.ok

\* the last k characters of a string
LastChars(t, k) == SubSeq(t, Len(t) - k + 1, Len(t))

\* the subtitle of a brand and a number, counted in characters
SubtitleInChars(brand_in, number_in) ==
    LET brand == IF IsSome(brand_in) /\ Unwrap(brand_in) # EmptyString THEN brand_in ELSE None
        n == IF IsSome(number_in) THEN Unwrap(number_in) ELSE EmptyString
        amex == SubSeq(n, 1, 2) \in {<<"3", "4">>, <<"3", "7">>}
        number == IF IsSome(number_in) /\ Len(n) > 4
                  THEN Some(<<"*">> \o LastChars(n, IF amex THEN 5 ELSE 4))
                  ELSE None
    IN  IF IsSome(brand) /\ IsSome(number) THEN Unwrap(brand) \o <<",", " ">> \o Unwrap(number)
        ELSE IF IsSome(brand) THEN Unwrap(brand)
        ELSE IF IsSome(number) THEN Unwrap(number)
        ELSE EmptyString

\* C23: the subtitle build_subtitle_card returns has the masked number made
\* of '*' and the last five characters of a number that starts with 34 or 37
\* and the last four characters of any other number; a number of four
\* characters or fewer and an empty brand count as absent; brand and masked
\* number are joined by ", ", one alone is returned as it is, none gives the
\* empty string.
C23_SubtitleShape ==
    (sb_res.op = "build_subtitle_card" /\ sb_res.ok) =>
        sb_res.val = SubtitleInChars(sb_brand, sb_number)

\* ------------------------------------------------------------ login_password: properties
\* C26: whenever login_password returns a response with authenticated = true,
\* the client holds the access and refresh tokens of that login, its login
\* method is the username method with the submitted email and KDF, and its
\* user crypto is initialised from the derived master key; for a response
\* with authenticated = false none of these was changed.
C26_AuthenticatedMeansLoggedIn ==
    (lg_res.op = "login_password" /\ lg_res.ok) =>
        LET r == Unwrap(lg_res.val)
        IN  /\ r.authenticated =>
                /\ lg_client.tokens = Some(Unwrap(lg_response).access_token)
                /\ lg_client.login_method = Some([email |-> Unwrap(lg_res.email), kdf |-> Kdf_default])
                /\ lg_client.unlocked
            /\ ~r.authenticated => lg_client = lg_res.before

\* C27: if login_password returns an error (the key derivation fails, the
\* token request fails, the answer lacks the wrapped user key or the private
\* key, a wrapped key does not parse, or the initialisation of the user
\* crypto fails), the tokens and the login method of the client are those of
\* before the call: a failed login never leaves stored tokens without keys.
C27_FailedLoginChangesNothing ==
    (lg_res.op = "login_password" /\ ~lg_res.ok) =>
        /\ lg_client.tokens = lg_res.before.tokens
        /\ lg_client.login_method = lg_res.before.login_method

\* ------------------------------------------------------------ json client: properties
\* C28: with run_command called concurrently on one Client, at most one
\* command at a time works on the inner client: a command takes the lock
\* before its first access and keeps it until its response is produced; an
\* input that does not parse as JSON or as a command gets an error response
\* without the lock being taken or the client being touched.
C28_OneCommandAtATime ==
    /\ ~jc_client.interleaved
    /\ Cardinality({c \in Callers : jc_pc[c] = "match"}) <= 1
    /\ \A c \in Callers :
        /\ (jc_step[c] > 0 /\ jc_pc[c] # "returned") => jc_lock = Some(c)
        /\ jc_pc[c] = "match" => jc_lock = Some(c)
        /\ (jc_pc[c] = "returned" /\ IsNone(jc_cmd[c])) =>
            /\ ~Unwrap(jc_resp[c]).success
            /\ Unwrap(jc_resp[c]).message \in {"Invalid command string", "Invalid command value"}
            /\ jc_step[c] = 0
            /\ c \notin jc_client.seen
        /\ jc_lock = Some(c) => IsSome(jc_cmd[c])

\* one caller is in the middle of its command and holds the lock, another
\* has parsed a command and waits for it
C28_Witness ==
    \E c, d \in Callers :
        /\ c # d
        /\ jc_pc[c] = "match" /\ jc_step[c] = 1 /\ jc_lock = Some(c)
        /\ jc_pc[d] = "lock" /\ IsSome(jc_cmd[d])

\* ------------------------------------------------------------ secret edit: properties
\* C29: secret_common::edit changes only the fields its caller specified:
\* every field left out (key, value, note, project) has, after the edit,
\* the value it had in the store immediately before the update was applied,
\* also when another edit of the same secret runs between this edit's read
\* and its update.
C29_EditKeepsUnspecifiedFields ==
    (ed_res.op = "update" /\ ed_res.ok) =>
        \A f \in SecretFields :
            IsNone(Unwrap(ed_secret[ed_res.by])[f]) => ed_store[f] = ed_res.before[f]

\* ------------------------------------------------------------ REST server: properties
\* C30: no request to the bws REST server reaches a panic in
\* process_request: every route dispatches its command with the organization
\* id the command requires, so the expect on a missing organization id is
\* never met, and every failure of the operation behind a route is answered
\* with a JSON body that has an error field, the server serving on.
C30_NoRequestPanics ==
    /\ sr_resp.kind # "panic"
    /\ \A i \in DOMAIN sr_log : sr_log[i] \in {"data", "error"}
    /\ sr_resp.kind = "error" => sr_resp.error = "api error"

\* a list request that failed was answered with an error, and the next list
\* request was answered with the secrets
C30_Witness ==
    /\ Len(sr_log) >= 2
    /\ sr_log[Len(sr_log) - 1] = "error"
    /\ sr_resp.route = "GET /secrets" /\ sr_resp.kind = "data" /\ sr_resp.body # {}

====
